---- MODULE Spec2Model ----
(***************************************************************************)
(* Presence service (src/presence-service): the ConnectionManager with its *)
(* three shared maps (connections, sessions, rooms), the Room user-id      *)
(* allocator and the Session registry.                                     *)
(*                                                                         *)
(* Every handler runs as the task of one connection.  A handler is cut     *)
(* into one action per lock scope / await point, so that the tasks of      *)
(* different connections interleave exactly where the code releases its    *)
(* locks.  The frames of one connection are handled one after the other    *)
(* (handle_connection awaits handle_message before reading the next        *)
(* frame), so each connection has a single program counter.                *)
(***************************************************************************)
EXTENDS Integers, Sequences, FiniteSets, TLC

\* ---------------------------------------------------------------- bounds
\* Number of client socket addresses.
NumConns == 3
\* Number of clients whose handlers run concurrently (Spec, SpecCap).
NumConcurrent == 2
\* Number of board ids the clients use.
NumBoards == 2
\* Client frames and Bus envelopes, and connect() calls, handled in one
\* behaviour of Spec.
MaxOps == 3
MaxConnects == 2
\* The same for the sequential runs of SpecSeq.
MaxOpsSeq == 4
MaxConnectsSeq == 4
\* The same for SpecCap, and the number of ids that the residents of board 1
\* leave free at most when a behaviour of SpecCap starts.
MaxOpsCap == 2
MaxFreeCap == 1
\* Envelopes that other publishers put on the Bus in one behaviour.
MaxPublishes == 1
\* Frames and envelopes, and connects, in the runs of SpecBus.
MaxOpsBus == 3
MaxConnectsBus == 2
MaxOpsLive == 2
MaxConnectsLive == 2
MaxOpsOutage == 2
MaxConnectsOutage == 2
MaxOpsAside == 3
MaxConnectsAside == 2
\* SpecLink
MaxOpsLink == 2
MaxConnectsLink == 2
\* SpecRetry
MaxOpsRetry == 2
MaxConnectsRetry == 2
MaxDrops == 1
\* SpecLeak
MaxOpsLeak == 2
MaxConnectsLeak == 3
\* SpecColor
MaxOpsColor == 2
MaxConnectsColor == 2

\* ------------------------------------------------------ program constants
\* Room::new collects (0..=255) into available_ids.
NumIds == 256

Conns == 1 .. NumConns
Boards == 1 .. NumBoards
\* The username that the client at address c puts in its Join frames.
Username(c) ==
    IF c = 1 THEN "Alice" ELSE IF c = 2 THEN "Bob"
    ELSE IF c = 3 THEN "Carol" ELSE "Erin"
\* Two of the values generate_color can return (red dominant, green dominant).
Red == <<255, 0, 0>>
Green == <<150, 180, 0>>
Colors == {Red, Green}
\* rng.gen_range(lo ..= hi): of the values of the range, its two ends.
gen_range(lo, hi) == {lo, hi}
\* generate_color with the dominant channel drawn from the range of the
\* other channels as well.
generate_color_dull ==
    LET high == gen_range(0, 150) \cup gen_range(180, 255)
        low == gen_range(0, 150)
    IN  {<<h, l, m>> : h \in high, l \in low, m \in low}
        \cup {<<l, h, m>> : h \in high, l \in low, m \in low}
        \cup {<<l, m, h>> : h \in high, l \in low, m \in low}
\* generate_color: the colours it can return; strategy 0 is red dominant,
\* 1 green dominant, any other blue dominant.
generate_color ==
    LET high == gen_range(180, 255)
        low == gen_range(0, 150)
    IN  {<<h, l, m>> : h \in high, l \in low, m \in low}
        \cup {<<l, h, m>> : h \in high, l \in low, m \in low}
        \cup {<<l, m, h>> : h \in high, l \in low, m \in low}
\* Addresses of connections that are already members of board 1 when a
\* behaviour of SpecCap starts (see InitCap); they send no frame.
Residents == (NumConns + 1) .. (NumConns + NumIds)
ResidentName == "Dave"
ResidentColor == <<0, 0, 180>>

None == -1

VARIABLES
    connections,  \* map addr -> contents of the outbound channel behind tx
    sessions,     \* map addr -> Session
    rooms,        \* map board_id -> Room
    bus,          \* per address: the RedisMessages its handlers published, in order
    remote,       \* the envelopes other publishers put on the Bus, in order,
                  \* each, where env.hosted says so, with the local members
                  \* of every room at that moment
    listener,     \* the task of subscribe_with_retry: its stream and locals
    task,         \* per address: program counter and locals of its handler,
                  \* and how its writer task is (none, running, stopped,
                  \* aborted)
    codec,        \* the codec at work on one frame or one coordinate: its
                  \* input, how far it is, its results
    env           \* the clients, the other publishers and the colour
                  \* generator: which addresses connect, the boards each joins
                  \* and leaves, the frames and connects left, whether the
                  \* clients wait for each other, the envelopes that arrive,
                  \* how many, and whether only while no handler runs, the
                  \* colours generate_color returns; where it is kept, the
                  \* boards each connection has joined since it connected;
                  \* whether the Bus is reachable and how often it may
                  \* still become unreachable

vars ==
    <<connections, sessions, rooms, bus, remote, listener, task, env, codec>>

\* ------------------------------------------------------------ map helpers
EmptyMap == [x \in {} |-> None]

Put(f, k, v) == [x \in (DOMAIN f) \cup {k} |-> IF x = k THEN v ELSE f[x]]

Remove(f, k) == [x \in (DOMAIN f) \ {k} |-> f[x]]

\* ------------------------------------------------------------- messages
UserJoined(b, id, name, color) ==
    [type |-> "UserJoined", board_id |-> b, user_id |-> id,
     username |-> name, color |-> color]

UserLeft(b, id) == [type |-> "UserLeft", board_id |-> b, user_id |-> id]

\* `count: user_count as u8`: a usize cast to one byte keeps the low 8 bits.
AsU8(n) == n % 256

PresenceUpdate(b, count) ==
    [type |-> "PresenceUpdate", board_id |-> b, count |-> count]

CursorBroadcast(b, id, x, y) ==
    [type |-> "CursorBroadcast", board_id |-> b, user_id |-> id,
     x |-> x, y |-> y]

\* The client-to-server kinds and a payload that BinaryMessage::decode rejects.
Join(b, name) == [type |-> "Join", board_id |-> b, username |-> name]

CursorUpdate(b, x, y) == [type |-> "CursorUpdate", board_id |-> b, x |-> x, y |-> y]

Heartbeat == [type |-> "Heartbeat"]

Malformed == [type |-> "Malformed"]

board_channel(b) == <<"presence:board", b>>

global_channel == <<"presence:global">>

\* start_redis_listener: `let channels = vec![RedisPubSub::global_channel()]`
channels == {global_channel}

InstanceId == "this-instance"

RedisMessage(b, msg) ==
    [channel |-> board_channel(b), instance_id |-> InstanceId, payload |-> msg]

\* An envelope that another publisher puts on channel ch.
Envelope(ch, id, msg) == [channel |-> ch, instance_id |-> id, payload |-> msg]

OtherInstance == "other-instance"

\* RedisMessage::get_binary_message: Ok(message) or Err.
Decodes(envelope) == envelope.payload.type # "Malformed"

\* The kinds handle_redis_message broadcasts; `_ =>` ignores the others.
\* The kinds with the client's Join frame among them.
BroadcastKinds_with_join ==
    {"UserJoined", "UserLeft", "CursorBroadcast", "PresenceUpdate", "Join"}

BroadcastKinds == {"UserJoined", "UserLeft", "CursorBroadcast", "PresenceUpdate"}

\* ----------------------------------------------------------------- Room
Room_new(b) ==
    [board_id |-> b, users |-> EmptyMap,
     available_ids |-> 0 .. (NumIds - 1), assigned_ids |-> {}]

\* Mutant of LowestAvailable: the search runs from 255 down.
HighestAvailable(room) ==
    CHOOSE id \in room.available_ids : \A j \in room.available_ids : id >= j

\* (0..=255u8).find(|id| self.available_ids.contains(id))
LowestAvailable(room) ==
    CHOOSE id \in room.available_ids : \A j \in room.available_ids : id <= j

\* Mutant of assign_user_id: the id is not taken out of available_ids.
assign_user_id_keeps_available(room) ==
    IF room.available_ids = {}
    THEN [id |-> None, room |-> room]
    ELSE LET id == LowestAvailable(room)
         IN  [id |-> id, room |-> [room EXCEPT !.assigned_ids = @ \cup {id}]]

\* Mutant of assign_user_id: a full room hands out id 255 once more.
assign_user_id_overbooks(room) ==
    IF room.available_ids = {}
    THEN [id |-> 255, room |-> room]
    ELSE LET id == LowestAvailable(room)
         IN  [id |-> id,
              room |-> [room EXCEPT !.available_ids = @ \ {id},
                                    !.assigned_ids = @ \cup {id}]]

assign_user_id(room) ==
    IF room.available_ids = {}
    THEN [id |-> None, room |-> room]
    ELSE LET id == LowestAvailable(room)
         IN  [id |-> id,
              room |-> [room EXCEPT !.available_ids = @ \ {id},
                                    !.assigned_ids = @ \cup {id}]]

\* Mutant of release_user_id: the id is not taken out of assigned_ids.
release_user_id_keeps_assigned(room, id) ==
    [room EXCEPT !.available_ids = @ \cup {id}]

release_user_id(room, id) ==
    [room EXCEPT !.assigned_ids = @ \ {id}, !.available_ids = @ \cup {id}]

add_user(room, addr, id, name, color) ==
    [room EXCEPT !.users =
        Put(@, addr, [addr |-> addr, user_id |-> id,
                      username |-> name, color |-> color])]

remove_user(room, addr) ==
    IF addr \in DOMAIN room.users
    THEN release_user_id([room EXCEPT !.users = Remove(@, addr)],
                         room.users[addr].user_id)
    ELSE room

user_count(room) == Cardinality(DOMAIN room.users)

user_addresses(room) == DOMAIN room.users

contains_user(room, addr) == addr \in DOMAIN room.users

\* -------------------------------------------------------------- Session
Session_new(addr) == [addr |-> addr, boards |-> EmptyMap]

add_board(session, b, id, name, color) ==
    [session EXCEPT !.boards =
        Put(@, b, [user_id |-> id, username |-> name, color |-> color])]

remove_board(session, b) == [session EXCEPT !.boards = Remove(@, b)]

board_ids(session) == DOMAIN session.boards

is_in_board(session, b) == b \in DOMAIN session.boards

\* The codec with nothing to do.
NoFrame == [pc |-> "none"]

\* ------------------------------------------------------------ task state
Blank ==
    [pc |-> "closed", board_id |-> 0, username |-> "", user_id |-> 0,
     color |-> <<0, 0, 0>>, user_count |-> 0, should_delete |-> FALSE,
     user_addrs |-> {}, board_ids |-> {}, in_disconnect |-> FALSE,
     x |-> 0, y |-> 0, log |-> "", writer |-> "none"]

\* The listener task in `stream.recv().await`, subscribed, nothing received
\* yet.
Listening ==
    [pc |-> "recv", stream |-> <<>>, message |-> Heartbeat, user_addrs |-> {},
     log |-> "", open |-> TRUE]

\* RedisPubSub::subscribe: Redis pushes an envelope published on a subscribed
\* channel to the subscription, while there is one; its task forwards it
\* into the stream.
Deliver(l, envelope) ==
    IF envelope.channel \in channels /\ l.open
    THEN [l EXCEPT !.stream = Append(@, envelope)]
    ELSE l

\* The task of c after its handler returns: back in the read loop of
\* handle_connection, or in the `for board_id in board_ids` loop of disconnect.
\* `line` is the warn! / error! line of an early return ("" when there is none).
ReturnedWith(t, line) ==
    IF t.in_disconnect
    THEN [Blank EXCEPT !.pc = "disc_loop", !.board_ids = t.board_ids,
                       !.in_disconnect = TRUE, !.log = line,
                       !.writer = t.writer]
    ELSE [Blank EXCEPT !.pc = "idle", !.log = line, !.writer = t.writer]

Returned(t) == ReturnedWith(t, "")

\* The task goes on at `label`, or returns from its handler.
Goto(t, label) == IF label = "return" THEN Returned(t) ELSE [t EXCEPT !.pc = label]

\* tx.send(message) on the sender registered for address a: the message goes
\* into the channel, unless the writer task has finished and dropped the
\* receiver, when tx.send returns Err.
tx_send(a, message) ==
    IF a \in Conns /\ task[a].writer = "stopped"
    THEN connections[a] ELSE Append(connections[a], message)

\* connect and disconnect keep the write guard of `connections` while they
\* wait for the write guard of `sessions`: in between no other task can take
\* `connections`, for reading or for writing.
ConnectionsFree(c) ==
    \A d \in Conns \ {c} : task[d].pc \notin {"connect_sessions", "disc_sessions"}

\* A frame, a connect or a disconnect of c can be taken up now.  In a
\* sequential run the clients wait for the handler in progress to return.
CanStart(c) ==
    /\ env.sequential => \A d \in Conns \ {c} : task[d].pc \in {"idle", "closed"}
    /\ env.bus_alone => listener.pc = "recv"

\* ------------------------------------------------- the clients' frames
\* The position in the CursorUpdate frames: x is 0x7FFF, and y counts down to
\* 0xBFFF with the frames left, so that no two frames carry the same position.
CursorX == 32767

CursorY == 49151 + env.ops - 1

\* ------------------------------------------------- the other publishers
\* A CursorBroadcast of board 1 as another instance publishes it for one of
\* its own members, and the envelope that brings it to this instance.
RemoteCursor == CursorBroadcast(1, 200, 100, 200)

RemoteEnvelope == Envelope(global_channel, OtherInstance, RemoteCursor)

\* What arrives in the runs of SpecBus: on the subscribed channel every kind
\* of payload under another instance's id and two under this instance's own,
\* and on the channel of board 1 what another instance publishes there.
BusPayloads ==
    {RemoteCursor, PresenceUpdate(1, 5), UserLeft(1, 200),
     UserJoined(1, 200, "Zoe", Green), Join(1, "Zoe"), Heartbeat, Malformed}

BusEnvelopes ==
    {Envelope(global_channel, OtherInstance, m) : m \in BusPayloads}
    \cup {Envelope(global_channel, InstanceId, m) : m \in {RemoteCursor, Malformed}}
    \cup {Envelope(board_channel(1), OtherInstance, RemoteCursor)}

\* env.joined where no record is kept of the boards joined.
NoHistory == <<>>

\* ------------------------------------------------------------------ Init
Init ==
    /\ connections = EmptyMap
    /\ sessions = EmptyMap
    /\ rooms = EmptyMap
    /\ bus = [c \in Conns |-> <<>>]
    /\ remote = <<>>
    /\ listener = Listening
    /\ task = [c \in Conns |-> Blank]
    /\ codec = NoFrame
    /\ env = [bus_up |-> TRUE, drops |-> 0, joined |-> NoHistory, ops |-> MaxOps, connects |-> MaxConnects, sequential |-> FALSE,
              publishes |-> MaxPublishes, envelopes |-> {RemoteEnvelope},
              bus_alone |-> TRUE, hosted |-> FALSE, outage |-> FALSE, asides |-> "first",
              clients |-> 1 .. NumConcurrent, colors |-> {Red},
              boards |-> [c \in Conns |-> IF c = 1 THEN Boards ELSE {1}]]

\* env after c has connected: it has joined no board since.
Connected(e, c) ==
    IF e.joined = NoHistory THEN e ELSE [e EXCEPT !.joined[c] = {}]
\* env after add_user has made c a member of board b.
Joined(e, c, b) ==
    IF e.joined = NoHistory THEN e ELSE [e EXCEPT !.joined[c] = @ \cup {b}]

\* ---------------------------------------------------- connect, disconnect
\* connect, first half: connections.write(); connections.insert(addr, tx)
Connect(c) ==
    /\ task[c].pc = "closed"
    /\ c \in env.clients
    /\ env.connects > 0
    /\ CanStart(c)
    /\ ConnectionsFree(c)
    /\ connections' = Put(connections, c, <<>>)
    /\ task' = [task EXCEPT ![c].pc = "connect_sessions"]
    /\ env' = Connected([env EXCEPT !.connects = @ - 1], c)
    /\ UNCHANGED <<sessions, rooms, bus, remote, listener, codec>>

\* Mutant of ConnectSession: the fan-outs keep a sessions guard while they
\* wait for connections, so that sessions.write() is not granted while a
\* fan-out waits.
ConnectSession_behind_fan_out(c) ==
    /\ task[c].pc = "connect_sessions"
    /\ \A d \in Conns \ {c} :
          task[d].pc \notin {"join_send_joined", "join_send_presence",
                             "leave_send_left", "leave_send_presence",
                             "cursor_send"}
    /\ sessions' = Put(sessions, c, Session_new(c))
    /\ task' = [task EXCEPT ![c].pc = "idle", ![c].writer = "running"]
    /\ UNCHANGED <<connections, rooms, bus, remote, listener, env, codec>>

\* connect, second half: sessions.write(); sessions.insert(addr, Session::new);
\* back in handle_connection the writer task is spawned and the read loop
\* entered.
ConnectSession(c) ==
    /\ task[c].pc = "connect_sessions"
    /\ sessions' = Put(sessions, c, Session_new(c))
    /\ task' = [task EXCEPT ![c].pc = "idle", ![c].writer = "running"]
    /\ UNCHANGED <<connections, rooms, bus, remote, listener, env, codec>>

\* Mutant of Disconnect: send_task.abort() is left out.
Disconnect_keeps_writer(c) ==
    /\ task[c].pc = "idle"
    /\ CanStart(c)
    /\ task' = [task EXCEPT ![c] =
            [Blank EXCEPT !.pc = "disc_loop", !.in_disconnect = TRUE,
                          !.writer = task[c].writer,
                          !.board_ids = IF c \in DOMAIN sessions
                                        THEN board_ids(sessions[c]) ELSE {}]]
    /\ UNCHANGED <<connections, sessions, rooms, bus, remote, listener, env, codec>>

\* The task of c after its read loop has ended: send_task.abort(), which
\* does nothing to a writer that has finished, and the first scope of
\* disconnect, which clones the session under sessions.read() and collects
\* its board ids.
LoopEnded(c) ==
    [Blank EXCEPT !.pc = "disc_loop", !.in_disconnect = TRUE,
                  !.writer = IF task[c].writer = "running"
                             THEN "aborted" ELSE task[c].writer,
                  !.board_ids = IF c \in DOMAIN sessions
                                THEN board_ids(sessions[c]) ELSE {}]

\* The read loop ends on a Close frame, an error or the end of the stream.
Disconnect(c) ==
    /\ task[c].pc = "idle"
    /\ CanStart(c)
    /\ task' = [task EXCEPT ![c] = LoopEnded(c)]
    /\ UNCHANGED <<connections, sessions, rooms, bus, remote, listener, env, codec>>

\* disconnect, after the loop: connections.write(); connections.remove(&addr)
DisconnectRemoveConnection(c) ==
    /\ task[c].pc = "disc_loop"
    /\ task[c].board_ids = {}
    /\ ConnectionsFree(c)
    /\ connections' = Remove(connections, c)
    /\ task' = [task EXCEPT ![c].pc = "disc_sessions"]
    /\ UNCHANGED <<sessions, rooms, bus, remote, listener, env, codec>>

\* disconnect, end: sessions.write(); sessions.remove(&addr)
DisconnectRemoveSession(c) ==
    /\ task[c].pc = "disc_sessions"
    /\ sessions' = Remove(sessions, c)
    /\ task' = [task EXCEPT ![c] = Blank]
    /\ UNCHANGED <<connections, rooms, bus, remote, listener, env, codec>>

\* ------------------------------------------ publish_to_redis, broadcast
\* publish_to_redis(board_id, &msg): the envelope goes to the board's channel.
\* Publishing touches no state of the manager, so it is taken in one step with
\* the lock scope that follows it.
Published(c, msg) ==
    [bus EXCEPT ![c] = Append(@, RedisMessage(msg.board_id, msg))]

\* publish_to_redis whose failure ends the handler instead of being logged.
PublishAndRead_failure_returns(c, msg, send, skip) ==
    /\ \/ /\ bus' = Published(c, msg)
          /\ listener' = Deliver(listener, RedisMessage(msg.board_id, msg))
          /\ task' = [task EXCEPT ![c] =
                  IF msg.board_id \in DOMAIN rooms
                  THEN [@ EXCEPT !.pc = send,
                                 !.user_addrs =
                                     user_addresses(rooms[msg.board_id])]
                  ELSE Goto(@, skip)]
       \/ /\ env.outage
          /\ UNCHANGED <<bus, listener, codec>>
          /\ task' = [task EXCEPT ![c] = ReturnedWith(@, "publish failed")]
    /\ UNCHANGED <<connections, sessions, rooms, remote, env, codec>>

\* A failed publish (redis_pubsub.publish or the encoding returns Err, which
\* happens where env.outage allows it and while the Bus is unreachable) is
\* logged and the handler goes on.
\* publish_to_redis, then broadcast_to_room's first scope: rooms.read(); the
\* member addresses are copied out, or the function returns when the room
\* does not exist.
PublishAndRead(c, msg, send, skip) ==
    /\ \/ /\ env.bus_up
          /\ bus' = Published(c, msg)
          /\ listener' = Deliver(listener, RedisMessage(msg.board_id, msg))
       \/ /\ env.outage \/ ~ env.bus_up
          /\ UNCHANGED <<bus, listener, codec>>
    /\ task' = [task EXCEPT ![c] =
            IF msg.board_id \in DOMAIN rooms
            THEN [@ EXCEPT !.pc = send,
                           !.user_addrs = user_addresses(rooms[msg.board_id])]
            ELSE Goto(@, skip)]
    /\ UNCHANGED <<connections, sessions, rooms, remote, env, codec>>

\* broadcast_to_room putting the frame at the head of the receivers' queues.
BroadcastSend_prepend(c, msg, exclude, next) ==
    /\ ConnectionsFree(c)
    /\ connections' =
         [a \in DOMAIN connections |->
            IF a \in task[c].user_addrs /\ a # exclude
            THEN <<msg>> \o connections[a] ELSE connections[a]]
    /\ task' = [task EXCEPT ![c] = Goto(@, next)]
    /\ UNCHANGED <<sessions, rooms, bus, remote, listener, env, codec>>

\* broadcast_to_room, second scope: connections.read(); tx.send to every
\* copied address but the excluded one, when it still has a sender.
BroadcastSend(c, msg, exclude, next) ==
    /\ ConnectionsFree(c)
    /\ connections' =
         [a \in DOMAIN connections |->
            IF a \in task[c].user_addrs /\ a # exclude
            THEN tx_send(a, msg) ELSE connections[a]]
    /\ task' = [task EXCEPT ![c] = Goto(@, next)]
    /\ UNCHANGED <<sessions, rooms, bus, remote, listener, env, codec>>

\* An early return of the handler, after the warn! / error! line `line`.
Return(c, line) ==
    /\ task' = [task EXCEPT ![c] = ReturnedWith(@, line)]

\* ----------------------------------------------------------- handle_join
\* Mutant of JoinCheck: the session is not looked at.
JoinCheck_no_duplicate_check(c, b, u) ==
    /\ task[c].pc = "idle"
    /\ env.ops > 0
    /\ CanStart(c)
    /\ env' = [env EXCEPT !.ops = @ - 1]
    /\ task' = [task EXCEPT ![c] =
            [@ EXCEPT !.pc = "join_room", !.board_id = b, !.username = u,
                      !.log = ""]]
    /\ UNCHANGED <<connections, sessions, rooms, bus, remote, listener, codec>>

\* A Join{board_id, username} frame is read and handle_join runs its first
\* scope: sessions.read(); return when the session already lists the board.
JoinCheck(c, b, u) ==
    /\ task[c].pc = "idle"
    /\ env.ops > 0
    /\ CanStart(c)
    /\ env' = [env EXCEPT !.ops = @ - 1]
    /\ task' = [task EXCEPT ![c] =
            IF c \in DOMAIN sessions /\ b \in board_ids(sessions[c])
            THEN [@ EXCEPT !.log = "already in room"]
            ELSE [@ EXCEPT !.pc = "join_room", !.board_id = b, !.username = u,
                           !.log = ""]]
    /\ UNCHANGED <<connections, sessions, rooms, bus, remote, listener, codec>>

\* rooms.write(): entry(board_id).or_insert_with(Room::new), assign_user_id
\* (return when None), generate_color, add_user, user_count.
JoinRoom(c) ==
    /\ task[c].pc = "join_room"
    /\ LET b == task[c].board_id
           room == IF b \in DOMAIN rooms THEN rooms[b] ELSE Room_new(b)
           got == assign_user_id(room)
       IN  IF got.id = None
           THEN /\ rooms' = Put(rooms, b, room)
                /\ Return(c, "room is full")
                /\ env' = env
           ELSE \E color \in env.colors :
                  LET joined == add_user(got.room, c, got.id,
                                         task[c].username, color)
                  IN  /\ rooms' = Put(rooms, b, joined)
                      /\ task' = [task EXCEPT ![c] =
                              [@ EXCEPT !.pc = "join_session",
                                        !.user_id = got.id,
                                        !.color = color,
                                        !.user_count = user_count(joined)]]
                      /\ env' = Joined(env, c, b)
    /\ UNCHANGED <<connections, sessions, bus, remote, listener, codec>>

\* sessions.write(): session.add_board(board_id, user_id, username, color)
JoinSession(c) ==
    /\ task[c].pc = "join_session"
    /\ sessions' =
         IF c \in DOMAIN sessions
         THEN [sessions EXCEPT ![c] =
                 add_board(@, task[c].board_id, task[c].user_id,
                           task[c].username, task[c].color)]
         ELSE sessions
    /\ task' = [task EXCEPT ![c].pc = "join_joined"]
    /\ UNCHANGED <<connections, rooms, bus, remote, listener, env, codec>>

JoinUserJoined(c) ==
    UserJoined(task[c].board_id, task[c].user_id, task[c].username,
               task[c].color)

JoinPresence(c) ==
    PresenceUpdate(task[c].board_id, AsU8(task[c].user_count))

JoinPublishUserJoined(c) ==
    /\ task[c].pc = "join_joined"
    /\ PublishAndRead(c, JoinUserJoined(c), "join_send_joined", "join_presence")

\* Mutant of JoinSendUserJoined: the joiner is not excluded.
JoinSendUserJoined_to_all(c) ==
    /\ task[c].pc = "join_send_joined"
    /\ BroadcastSend(c, JoinUserJoined(c), None, "join_presence")

JoinSendUserJoined(c) ==
    /\ task[c].pc = "join_send_joined"
    /\ BroadcastSend(c, JoinUserJoined(c), c, "join_presence")

JoinPublishPresence(c) ==
    /\ task[c].pc = "join_presence"
    /\ PublishAndRead(c, JoinPresence(c), "join_send_presence", "return")

JoinSendPresence(c) ==
    /\ task[c].pc = "join_send_presence"
    /\ BroadcastSend(c, JoinPresence(c), None, "return")

\* ---------------------------------------------- handle_leave_internal
\* First scope of handle_leave_internal: sessions.read(); the user id of the
\* session's entry for the board, or return when there is none.
LeaveLookup(c, b, t) ==
    IF c \in DOMAIN sessions /\ b \in board_ids(sessions[c])
    THEN [t EXCEPT !.pc = "leave_room", !.board_id = b, !.log = "",
                   !.user_id = sessions[c].boards[b].user_id]
    ELSE ReturnedWith(t, "not in room")

\* A Leave{board_id} frame is read: handle_leave -> handle_leave_internal.
LeaveCheck(c, b) ==
    /\ task[c].pc = "idle"
    /\ env.ops > 0
    /\ CanStart(c)
    /\ env' = [env EXCEPT !.ops = @ - 1]
    /\ task' = [task EXCEPT ![c] = LeaveLookup(c, b, @)]
    /\ UNCHANGED <<connections, sessions, rooms, bus, remote, listener, codec>>

\* The loop of disconnect dropping a board without running the leave for it.
DisconnectLeave_skips(c) ==
    /\ task[c].pc = "disc_loop"
    /\ \E b \in task[c].board_ids :
         task' = [task EXCEPT ![c].board_ids = @ \ {b}]
    /\ UNCHANGED <<connections, sessions, rooms, bus, remote, listener, env, codec>>

\* disconnect: the next board of `for board_id in board_ids` (the Vec comes
\* from HashMap keys, in any order) -> handle_leave_internal.
DisconnectLeave(c) ==
    /\ task[c].pc = "disc_loop"
    /\ \E b \in task[c].board_ids :
         task' = [task EXCEPT ![c] =
                    LeaveLookup(c, b, [@ EXCEPT !.board_ids = @ \ {b}])]
    /\ UNCHANGED <<connections, sessions, rooms, bus, remote, listener, env, codec>>

\* rooms.write(): rooms.get_mut(board_id): remove_user, count,
\* (count == 0, count); return when the room does not exist.
LeaveRoom(c) ==
    /\ task[c].pc = "leave_room"
    /\ LET b == task[c].board_id
       IN  IF b \in DOMAIN rooms
           THEN LET left == remove_user(rooms[b], c)
                    count == user_count(left)
                IN  /\ rooms' = [rooms EXCEPT ![b] = left]
                    /\ task' = [task EXCEPT ![c] =
                            [@ EXCEPT !.pc = "leave_session",
                                      !.should_delete = (count = 0),
                                      !.user_count = count]]
           ELSE /\ rooms' = rooms
                /\ Return(c, "room does not exist")
    /\ UNCHANGED <<connections, sessions, bus, remote, listener, env, codec>>

\* sessions.write(): session.remove_board(board_id)
LeaveSession(c) ==
    /\ task[c].pc = "leave_session"
    /\ sessions' =
         IF c \in DOMAIN sessions
         THEN [sessions EXCEPT ![c] = remove_board(@, task[c].board_id)]
         ELSE sessions
    /\ task' = [task EXCEPT ![c].pc = "leave_left"]
    /\ UNCHANGED <<connections, rooms, bus, remote, listener, env, codec>>

LeaveUserLeft(c) == UserLeft(task[c].board_id, task[c].user_id)

LeavePresence(c) ==
    PresenceUpdate(task[c].board_id, AsU8(task[c].user_count))

\* Mutant of AfterUserLeft: the PresenceUpdate is sent whatever the count.
AfterUserLeft_always_presence(c) == "leave_presence"

\* After the UserLeft broadcast: `if user_count > 0 { .. }`, then
\* `if should_delete_room { .. }`, then the end of the function.
AfterUserLeft(c) ==
    IF task[c].user_count > 0 THEN "leave_presence"
    ELSE IF task[c].should_delete THEN "leave_delete" ELSE "return"

AfterPresence(c) ==
    IF task[c].should_delete THEN "leave_delete" ELSE "return"

LeavePublishUserLeft(c) ==
    /\ task[c].pc = "leave_left"
    /\ PublishAndRead(c, LeaveUserLeft(c), "leave_send_left", AfterUserLeft(c))

LeaveSendUserLeft(c) ==
    /\ task[c].pc = "leave_send_left"
    /\ BroadcastSend(c, LeaveUserLeft(c), c, AfterUserLeft(c))

LeavePublishPresence(c) ==
    /\ task[c].pc = "leave_presence"
    /\ PublishAndRead(c, LeavePresence(c), "leave_send_presence", AfterPresence(c))

LeaveSendPresence(c) ==
    /\ task[c].pc = "leave_send_presence"
    /\ BroadcastSend(c, LeavePresence(c), None, AfterPresence(c))

\* Mutant of LeaveDeleteRoom: the empty room stays in the registry.
LeaveDeleteRoom_keeps(c) ==
    /\ task[c].pc = "leave_delete"
    /\ Return(c, "")
    /\ UNCHANGED <<connections, sessions, rooms, bus, remote, listener, env, codec>>

\* `if should_delete_room`: rooms.write(); rooms.remove(&board_id)
LeaveDeleteRoom(c) ==
    /\ task[c].pc = "leave_delete"
    /\ rooms' = Remove(rooms, task[c].board_id)
    /\ Return(c, "")
    /\ UNCHANGED <<connections, sessions, bus, remote, listener, env, codec>>

\* ------------------------------------------------- handle_cursor_update
\* Mutant of CursorCheck: a board the session does not list goes on with id 0.
CursorCheck_no_session_check(c, b, x, y) ==
    /\ task[c].pc = "idle"
    /\ env.ops > 0
    /\ CanStart(c)
    /\ env' = [env EXCEPT !.ops = @ - 1]
    /\ task' = [task EXCEPT ![c] =
            [@ EXCEPT !.pc = "cursor_publish", !.board_id = b, !.log = "",
                      !.user_id = IF c \in DOMAIN sessions
                                     /\ b \in DOMAIN sessions[c].boards
                                  THEN sessions[c].boards[b].user_id ELSE 0,
                      !.x = x, !.y = y]]
    /\ UNCHANGED <<connections, sessions, rooms, bus, remote, listener, codec>>

\* A CursorUpdate{board_id, x, y} frame is read: sessions.read(); the user id
\* of the session's entry for the board, or return when there is none.
CursorCheck(c, b, x, y) ==
    /\ task[c].pc = "idle"
    /\ env.ops > 0
    /\ CanStart(c)
    /\ env' = [env EXCEPT !.ops = @ - 1]
    /\ task' = [task EXCEPT ![c] =
            IF c \in DOMAIN sessions /\ b \in DOMAIN sessions[c].boards
            THEN [@ EXCEPT !.pc = "cursor_publish", !.board_id = b, !.log = "",
                           !.user_id = sessions[c].boards[b].user_id,
                           !.x = x, !.y = y]
            ELSE ReturnedWith(@, "not in room")]
    /\ UNCHANGED <<connections, sessions, rooms, bus, remote, listener, codec>>

CursorCursorBroadcast(c) ==
    CursorBroadcast(task[c].board_id, task[c].user_id, task[c].x, task[c].y)

CursorPublish(c) ==
    /\ task[c].pc = "cursor_publish"
    /\ PublishAndRead(c, CursorCursorBroadcast(c), "cursor_send", "return")

\* Mutant of CursorSend: the sender is not excluded.
CursorSend_to_all(c) ==
    /\ task[c].pc = "cursor_send"
    /\ BroadcastSend(c, CursorCursorBroadcast(c), None, "return")

CursorSend(c) ==
    /\ task[c].pc = "cursor_send"
    /\ BroadcastSend(c, CursorCursorBroadcast(c), c, "return")

\* --------------------------------------------------- the Bus, the listener
\* Another publisher puts an envelope on a channel of the Bus.
RemotePublish(envelope) ==
    /\ env.publishes > 0
    /\ env.ops > 0
    /\ env' = [env EXCEPT !.publishes = @ - 1, !.ops = @ - 1]
    /\ remote' = Append(remote,
            [envelope |-> envelope,
             hosted |-> IF env.hosted
                        THEN [b \in DOMAIN rooms |-> user_addresses(rooms[b])]
                        ELSE EmptyMap])
    /\ listener' = Deliver(listener, envelope)
    /\ UNCHANGED <<connections, sessions, rooms, bus, task, codec>>

\* The listener without the comparison of the envelope's instance id.
ListenerRecv_no_own_check ==
    /\ listener.pc = "recv"
    /\ listener.stream # <<>>
    /\ env.bus_alone => \A d \in Conns : task[d].pc \in {"idle", "closed"}
    /\ LET envelope == Head(listener.stream)
           rest == [listener EXCEPT !.stream = Tail(@)]
       IN  listener' =
             IF ~ Decodes(envelope)
             THEN [rest EXCEPT !.log = "decode failed"]
             ELSE IF envelope.payload.type \notin BroadcastKinds
             THEN [rest EXCEPT !.log = "ignored"]
             ELSE IF envelope.payload.board_id \notin DOMAIN rooms
             THEN [rest EXCEPT !.log = "room does not exist"]
             ELSE [rest EXCEPT
                     !.pc = "send", !.log = "",
                     !.message = envelope.payload,
                     !.user_addrs =
                         user_addresses(rooms[envelope.payload.board_id])]
    /\ UNCHANGED <<connections, sessions, rooms, bus, remote, task, env, codec>>

\* subscribe_with_retry takes the next envelope from its stream: skip when
\* the instance id is this instance's, error when the payload does not
\* decode; handle_redis_message: ignore when the kind is no broadcast kind;
\* broadcast_to_room, first scope: rooms.read(), the member addresses are
\* copied out, or return when the room does not exist.
ListenerRecv ==
    /\ listener.pc = "recv"
    /\ listener.stream # <<>>
    /\ env.bus_alone => \A d \in Conns : task[d].pc \in {"idle", "closed"}
    /\ LET envelope == Head(listener.stream)
           rest == [listener EXCEPT !.stream = Tail(@)]
       IN  listener' =
             IF envelope.instance_id = InstanceId
             THEN [rest EXCEPT !.log = "own instance"]
             ELSE IF ~ Decodes(envelope)
             THEN [rest EXCEPT !.log = "decode failed"]
             ELSE IF envelope.payload.type \notin BroadcastKinds
             THEN [rest EXCEPT !.log = "ignored"]
             ELSE IF envelope.payload.board_id \notin DOMAIN rooms
             THEN [rest EXCEPT !.log = "room does not exist"]
             ELSE [rest EXCEPT
                     !.pc = "send", !.log = "",
                     !.message = envelope.payload,
                     !.user_addrs =
                         user_addresses(rooms[envelope.payload.board_id])]
    /\ UNCHANGED <<connections, sessions, rooms, bus, remote, task, env, codec>>

\* broadcast_to_room(board_id, message, None), second scope:
\* connections.read(); tx.send to every copied address that has a sender.
ListenerSend ==
    /\ listener.pc = "send"
    /\ ConnectionsFree(None)
    /\ connections' =
         [a \in DOMAIN connections |->
            IF a \in listener.user_addrs
            THEN tx_send(a, listener.message) ELSE connections[a]]
    /\ listener' = [listener EXCEPT !.pc = "recv", !.user_addrs = {},
                                    !.message = Heartbeat]
    /\ UNCHANGED <<sessions, rooms, bus, remote, task, env, codec>>

\* ----------------------------------------------------------------- codec
\* protocol/types.rs: the tags and the username limit.
MSG_CURSOR_UPDATE == 1
MSG_CURSOR_BROADCAST == 2
MSG_JOIN == 3
MSG_LEAVE == 4
MSG_USER_JOINED == 5
MSG_USER_LEFT == 6
MSG_PRESENCE_UPDATE == 7
MSG_HEARTBEAT == 8
MAX_USERNAME_LENGTH == 32

Leave(b) == [type |-> "Leave", board_id |-> b]

\* The bytes of a u16 with the low byte first.
to_le_bytes(v) == <<v % 256, v \div 256>>

\* u16::to_be_bytes, u16::from_be_bytes
to_be_bytes(v) == <<v \div 256, v % 256>>

from_be_bytes(buf) == buf[1] * 256 + buf[2]

\* A username behind a length of two bytes.
length_prefixed_u16(username) == to_be_bytes(Len(username)) \o username

\* A username is a String: the sequence of its UTF-8 bytes.
\* `&[username_bytes.len() as u8]` followed by the bytes.
length_prefixed(username) == <<Len(username) % 256>> \o username

\* BinaryMessage::encode
encode(m) ==
    CASE m.type = "CursorUpdate" ->
            <<MSG_CURSOR_UPDATE>> \o to_be_bytes(m.board_id)
                \o to_be_bytes(m.x) \o to_be_bytes(m.y)
      [] m.type = "CursorBroadcast" ->
            <<MSG_CURSOR_BROADCAST>> \o to_be_bytes(m.board_id)
                \o <<m.user_id>> \o to_be_bytes(m.x) \o to_be_bytes(m.y)
      [] m.type = "Join" ->
            <<MSG_JOIN>> \o to_be_bytes(m.board_id)
                \o length_prefixed(m.username)
      [] m.type = "Leave" ->
            <<MSG_LEAVE>> \o to_be_bytes(m.board_id)
      [] m.type = "UserJoined" ->
            <<MSG_USER_JOINED>> \o to_be_bytes(m.board_id) \o <<m.user_id>>
                \o length_prefixed(m.username) \o m.color
      [] m.type = "UserLeft" ->
            <<MSG_USER_LEFT>> \o to_be_bytes(m.board_id) \o <<m.user_id>>
      [] m.type = "PresenceUpdate" ->
            <<MSG_PRESENCE_UPDATE>> \o to_be_bytes(m.board_id) \o <<m.count>>
      [] m.type = "Heartbeat" -> <<MSG_HEARTBEAT>>

Ok(v) == [ok |-> TRUE, value |-> v]

Err(e) == [ok |-> FALSE, error |-> e]

\* String::from_utf8: the bytes are well-formed UTF-8 (no overlong forms,
\* no surrogates, nothing above U+10FFFF).
RECURSIVE from_utf8_ok(_)
from_utf8_ok(buf) ==
    LET n == Len(buf)
        Cont(k) == k <= n /\ buf[k] \in 128 .. 191
        In(k, lo, hi) == k <= n /\ buf[k] \in lo .. hi
        Rest(k) == from_utf8_ok(SubSeq(buf, k, n))
    IN  IF n = 0 THEN TRUE
        ELSE IF buf[1] <= 127 THEN Rest(2)
        ELSE IF buf[1] \in 194 .. 223 THEN Cont(2) /\ Rest(3)
        ELSE IF buf[1] = 224 THEN In(2, 160, 191) /\ Cont(3) /\ Rest(4)
        ELSE IF buf[1] \in (225 .. 236) \cup {238, 239}
             THEN Cont(2) /\ Cont(3) /\ Rest(4)
        ELSE IF buf[1] = 237 THEN In(2, 128, 159) /\ Cont(3) /\ Rest(4)
        ELSE IF buf[1] = 240
             THEN In(2, 144, 191) /\ Cont(3) /\ Cont(4) /\ Rest(5)
        ELSE IF buf[1] \in 241 .. 243
             THEN Cont(2) /\ Cont(3) /\ Cont(4) /\ Rest(5)
        ELSE IF buf[1] = 244
             THEN In(2, 128, 143) /\ Cont(3) /\ Cont(4) /\ Rest(5)
        ELSE FALSE

\* read_u8, read_u16, read_color at position pos of the cursor: the value and
\* the next position, or BufferUnderflow.
read_exact(data, pos, n) ==
    IF pos + n - 1 <= Len(data)
    THEN [ok |-> TRUE, value |-> SubSeq(data, pos, pos + n - 1), pos |-> pos + n]
    ELSE Err("BufferUnderflow")

\* read_string without the comparison with max_length.
read_string_any_length(data, pos, max_length) ==
    LET len == read_exact(data, pos, 1)
    IN  IF ~ len.ok THEN len
        ELSE LET buf == read_exact(data, len.pos, len.value[1])
             IN  IF ~ buf.ok THEN buf
                 ELSE IF ~ from_utf8_ok(buf.value) THEN Err("InvalidUtf8")
                 ELSE buf

\* read_string(cursor, max_length)
read_string(data, pos, max_length) ==
    LET len == read_exact(data, pos, 1)
    IN  IF ~ len.ok THEN len
        ELSE LET length == len.value[1]
                 buf == read_exact(data, len.pos, length)
             IN  IF length > max_length THEN Err("UsernameTooLong")
                 ELSE IF ~ buf.ok THEN buf
                 ELSE IF ~ from_utf8_ok(buf.value) THEN Err("InvalidUtf8")
                 ELSE buf

\* BinaryMessage::decode. The fixed-size arms check data.len() first, so
\* their reads cannot fail.
decode(data) ==
    IF data = <<>> THEN Err("BufferUnderflow")
    ELSE
    LET msg_type == data[1]
        u16(pos) == from_be_bytes(SubSeq(data, pos, pos + 1))
    IN  CASE msg_type = MSG_CURSOR_UPDATE ->
                IF Len(data) # 7 THEN Err("InvalidLength")
                ELSE Ok(CursorUpdate(u16(2), u16(4), u16(6)))
          [] msg_type = MSG_CURSOR_BROADCAST ->
                IF Len(data) # 8 THEN Err("InvalidLength")
                ELSE Ok(CursorBroadcast(u16(2), data[4], u16(5), u16(7)))
          [] msg_type = MSG_JOIN ->
                IF Len(data) < 4 THEN Err("InvalidLength")
                ELSE LET username == read_string(data, 4, MAX_USERNAME_LENGTH)
                     IN  IF ~ username.ok THEN username
                         ELSE Ok(Join(u16(2), username.value))
          [] msg_type = MSG_LEAVE ->
                IF Len(data) # 3 THEN Err("InvalidLength")
                ELSE Ok(Leave(u16(2)))
          [] msg_type = MSG_USER_JOINED ->
                IF Len(data) < 8 THEN Err("InvalidLength")
                ELSE LET username == read_string(data, 5, MAX_USERNAME_LENGTH)
                     IN  IF ~ username.ok THEN username
                         ELSE LET color == read_exact(data, username.pos, 3)
                              IN  IF ~ color.ok THEN color
                                  ELSE Ok(UserJoined(u16(2), data[4],
                                              username.value, color.value))
          [] msg_type = MSG_USER_LEFT ->
                IF Len(data) # 4 THEN Err("InvalidLength")
                ELSE Ok(UserLeft(u16(2), data[4]))
          [] msg_type = MSG_PRESENCE_UPDATE ->
                IF Len(data) # 4 THEN Err("InvalidLength")
                ELSE Ok(PresenceUpdate(u16(2), data[4]))
          [] msg_type = MSG_HEARTBEAT ->
                IF Len(data) # 1 THEN Err("InvalidLength")
                ELSE Ok(Heartbeat)
          [] OTHER -> Err("UnknownMessageType")

\* The values the codec is tried on: board ids, user ids and counts,
\* coordinates, colours, and usernames of every length up to the limit, in
\* one, two, three and four byte characters.
BoardIds == {0, 1, 258, 65535}

UserIds == {0, 7, 255}

Coords == {0, 513, 65535}

Rgbs == {<<255, 0, 0>>, <<0, 128, 255>>}

Repeated(bytes, n) == [i \in 1 .. n * Len(bytes) |-> bytes[((i - 1) % Len(bytes)) + 1]]

Usernames ==
    {Repeated(<<97>>, n) : n \in 0 .. MAX_USERNAME_LENGTH}
    \cup {Repeated(<<195, 169>>, n) : n \in {1, 16}}
    \cup {<<226, 130, 172>>, <<240, 159, 152, 128>>,
          Repeated(<<240, 159, 152, 128>>, 8)}

Messages ==
    {CursorUpdate(b, x, y) : b \in BoardIds, x \in Coords, y \in Coords}
    \cup {CursorBroadcast(b, id, x, y) :
            b \in BoardIds, id \in UserIds, x \in Coords, y \in Coords}
    \cup {Join(b, name) : b \in BoardIds, name \in Usernames}
    \cup {Leave(b) : b \in BoardIds}
    \cup {UserJoined(b, id, name, color) :
            b \in {1, 258}, id \in UserIds, name \in Usernames, color \in Rgbs}
    \cup {UserLeft(b, id) : b \in BoardIds, id \in UserIds}
    \cup {PresenceUpdate(b, count) : b \in BoardIds, count \in UserIds}
    \cup {Heartbeat}

\* Byte strings that are no UTF-8: a byte that never occurs, a lone
\* continuation byte, a character cut short, an overlong form, a surrogate.
BadUsernames ==
    {<<255>>, <<97, 128>>, <<195>>, <<192, 128>>, <<237, 160, 128>>,
     <<226, 130>>, <<244, 144, 128, 128>>}

\* Frames as a client or the Bus may deliver them: well-formed frames, every
\* proper prefix of one, one with a byte too many, unknown tags, usernames
\* that are too long or no UTF-8.
WellFormed ==
    {encode(m) : m \in {CursorUpdate(258, 513, 65535),
                        CursorBroadcast(258, 7, 513, 65535),
                        Join(258, <<>>), Join(258, <<97, 195, 169>>),
                        Join(1, Repeated(<<97>>, MAX_USERNAME_LENGTH)),
                        Leave(258),
                        UserJoined(258, 7, <<>>, <<0, 128, 255>>),
                        UserJoined(258, 7, <<226, 130, 172>>, <<0, 128, 255>>),
                        UserLeft(258, 7), PresenceUpdate(258, 255), Heartbeat}}

Frames ==
    WellFormed
    \cup UNION {{SubSeq(f, 1, k) : k \in 0 .. Len(f) - 1} : f \in WellFormed}
    \cup {f \o <<0>> : f \in WellFormed}
    \cup {<<t>> \o f : t \in {0, 9, 255}, f \in {<<>>, <<0, 1>>, <<0, 1, 0>>}}
    \cup {<<MSG_JOIN, 0, 1, n>> \o Repeated(<<97>>, n) : n \in {33, 34, 255}}
    \cup {<<MSG_USER_JOINED, 0, 1, 7, n>> \o Repeated(<<97>>, n) \o <<1, 2, 3>> :
            n \in {33, 255}}
    \cup {<<MSG_JOIN, 0, 1>> \o length_prefixed(name) : name \in BadUsernames}
    \cup {<<MSG_USER_JOINED, 0, 1, 7>> \o length_prefixed(name) \o <<1, 2, 3>> :
            name \in BadUsernames}

\* The codec takes a message to encode and decodes what it encoded, or
\* takes a frame to decode.
EncodeMessage ==
    /\ codec.pc = "message"
    /\ codec' = [codec EXCEPT !.pc = "encoded", !.data = encode(codec.m)]
    /\ UNCHANGED <<connections, sessions, rooms, bus, remote, listener, task, env>>

DecodeFrame ==
    /\ codec.pc \in {"encoded", "frame"}
    /\ codec' = [codec EXCEPT !.pc = "decoded", !.result = decode(codec.data)]
    /\ UNCHANGED <<connections, sessions, rooms, bus, remote, listener, task, env>>

\* What decode returned is encoded again.
Reencode ==
    /\ codec.pc = "decoded"
    /\ codec.result.ok
    /\ codec' = [codec EXCEPT !.pc = "reencoded",
                              !.again = encode(codec.result.value)]
    /\ UNCHANGED <<connections, sessions, rooms, bus, remote, listener, task, env>>

NextCodec == EncodeMessage \/ DecodeFrame \/ Reencode

InitCodec ==
    /\ connections = EmptyMap
    /\ sessions = EmptyMap
    /\ rooms = EmptyMap
    /\ bus = [c \in Conns |-> <<>>]
    /\ remote = <<>>
    /\ listener = Listening
    /\ task = [c \in Conns |-> Blank]
    /\ env = [bus_up |-> TRUE, drops |-> 0, joined |-> NoHistory, ops |-> 0, connects |-> 0, publishes |-> 0, envelopes |-> {},
              bus_alone |-> TRUE, hosted |-> FALSE, outage |-> FALSE,
              asides |-> "first", sequential |-> TRUE, clients |-> {},
              colors |-> {Red}, boards |-> [c \in Conns |-> {}]]
    /\ codec \in
         {[pc |-> "message", from |-> "message", m |-> m, data |-> <<>>,
           result |-> Err(""), again |-> <<>>] : m \in Messages}
         \cup {[pc |-> "frame", from |-> "frame", m |-> Heartbeat, data |-> f,
                result |-> Err(""), again |-> <<>>] : f \in Frames}

SpecCodec == InitCodec /\ [][NextCodec]_vars

\* ------------------------------------- handle_heartbeat, server-only tags
IsMemberOf(a, b) == b \in DOMAIN rooms /\ contains_user(rooms[b], a)

\* The frames outside the board protocol are sent at any time, or, where
\* env.asides says so, only as the first frame of a connection.
AsideAllowed(c) ==
    \/ env.asides = "any"
    \/ /\ c \in DOMAIN connections /\ connections[c] = <<>>
       /\ c \in DOMAIN sessions /\ board_ids(sessions[c]) = {}
       /\ task[c].log = ""

\* send_to_client sending to every connection.
send_to_client_everyone(addr, message) ==
    [a \in DOMAIN connections |-> Append(connections[a], message)]

\* send_to_client: connections.read(); tx.send when the address has a
\* sender, Err otherwise.
send_to_client(addr, message) ==
    IF addr \in DOMAIN connections
    THEN [connections EXCEPT ![addr] = tx_send(addr, message)]
    ELSE connections

\* A Heartbeat frame is read: handle_heartbeat echoes a Heartbeat through
\* send_to_client and warns when that fails.
HandleHeartbeat(c) ==
    /\ task[c].pc = "idle"
    /\ env.ops > 0
    /\ CanStart(c)
    /\ AsideAllowed(c)
    /\ ConnectionsFree(c)
    /\ env' = [env EXCEPT !.ops = @ - 1]
    /\ connections' = send_to_client(c, Heartbeat)
    /\ task' = [task EXCEPT ![c] =
            ReturnedWith(@, IF c \in DOMAIN connections
                            THEN "" ELSE "failed to send heartbeat")]
    /\ UNCHANGED <<sessions, rooms, bus, remote, listener, codec>>

\* Frames with a server-only tag, as a client may forge them: another
\* user's cursor, a join, a leave, a count.
ServerFrames ==
    {CursorBroadcast(1, 1, CursorX, 7), UserJoined(1, 1, "Mallory", Red),
     UserLeft(1, 77), PresenceUpdate(1, 99)}

\* handle_message relaying a frame of any other kind to the board.
UnexpectedServerMessage_fans_out(c, msg) ==
    /\ task[c].pc = "idle"
    /\ env.ops > 0
    /\ CanStart(c)
    /\ AsideAllowed(c)
    /\ env' = [env EXCEPT !.ops = @ - 1]
    /\ connections' =
         [a \in DOMAIN connections |->
            IF IsMemberOf(a, msg.board_id)
            THEN Append(connections[a], msg) ELSE connections[a]]
    /\ task' = [task EXCEPT ![c] = Returned(@)]
    /\ UNCHANGED <<sessions, rooms, bus, remote, listener, codec>>

\* handle_message, `_ =>` arm: a frame of any other kind is logged.
UnexpectedServerMessage(c, msg) ==
    /\ task[c].pc = "idle"
    /\ env.ops > 0
    /\ CanStart(c)
    /\ AsideAllowed(c)
    /\ msg.type \notin {"Join", "Leave", "CursorUpdate", "Heartbeat"}
    /\ env' = [env EXCEPT !.ops = @ - 1]
    /\ task' = [task EXCEPT ![c] =
            ReturnedWith(@, "unexpected server message")]
    /\ UNCHANGED <<connections, sessions, rooms, bus, remote, listener, codec>>

\* What the read loop of handle_connection gets from the client's stream and
\* does not hand to the manager: a binary message, a text message.
Binary(data) == [kind |-> "Binary", data |-> data]

Text(text) == [kind |-> "Text", text |-> text]

\* A truncated CursorUpdate, an unknown tag, a Join whose username is no
\* UTF-8, an empty binary message, a text message; and a Leave that decodes.
ClientFrames ==
    {Binary(<<MSG_CURSOR_UPDATE, 0, 1, 128>>), Binary(<<9, 0, 1>>),
     Binary(<<MSG_JOIN, 0, 1, 1, 255>>), Binary(<<>>),
     Binary(encode(Leave(1))), Text("join 1")}

\* Mutant of SkipFrame: the client is sent a frame in reply.
SkipFrame_replies(c, message) ==
    /\ task[c].pc = "idle"
    /\ env.ops > 0
    /\ CanStart(c)
    /\ AsideAllowed(c)
    /\ ConnectionsFree(c)
    /\ message.kind = "Binary" => ~decode(message.data).ok
    /\ env' = [env EXCEPT !.ops = @ - 1]
    /\ connections' = send_to_client(c, Heartbeat)
    /\ task' = [task EXCEPT ![c] =
            ReturnedWith(@, IF message.kind = "Binary"
                            THEN "failed to decode message"
                            ELSE "unexpected text message")]
    /\ UNCHANGED <<sessions, rooms, bus, remote, listener, codec>>

\* The read loop of handle_connection gets a binary message that
\* BinaryMessage::decode rejects, or a text message: a warn! line, and the
\* loop goes on with the next message.
SkipFrame(c, message) ==
    /\ task[c].pc = "idle"
    /\ env.ops > 0
    /\ CanStart(c)
    /\ AsideAllowed(c)
    /\ message.kind = "Binary" => ~decode(message.data).ok
    /\ env' = [env EXCEPT !.ops = @ - 1]
    /\ task' = [task EXCEPT ![c] =
            ReturnedWith(@, IF message.kind = "Binary"
                            THEN "failed to decode message"
                            ELSE "unexpected text message")]
    /\ UNCHANGED <<connections, sessions, rooms, bus, remote, listener, codec>>

\* ------------------------------------------------------------------ Next
Next ==
    \/ \E c \in Conns :
        \/ Connect(c)
        \/ ConnectSession(c)
        \/ Disconnect(c)
        \/ DisconnectLeave(c)
        \/ DisconnectRemoveConnection(c)
        \/ DisconnectRemoveSession(c)
        \/ \E b \in env.boards[c] : JoinCheck(c, b, Username(c))
        \/ JoinRoom(c)
        \/ JoinSession(c)
        \/ JoinPublishUserJoined(c)
        \/ JoinSendUserJoined(c)
        \/ JoinPublishPresence(c)
        \/ JoinSendPresence(c)
        \/ \E b \in env.boards[c] : LeaveCheck(c, b)
        \/ LeaveRoom(c)
        \/ LeaveSession(c)
        \/ LeavePublishUserLeft(c)
        \/ LeaveSendUserLeft(c)
        \/ LeavePublishPresence(c)
        \/ LeaveSendPresence(c)
        \/ LeaveDeleteRoom(c)
        \/ \E b \in env.boards[c] : CursorCheck(c, b, CursorX, CursorY)
        \/ CursorPublish(c)
        \/ CursorSend(c)
        \/ HandleHeartbeat(c)
        \/ \E msg \in ServerFrames : UnexpectedServerMessage(c, msg)
        \/ \E message \in ClientFrames : SkipFrame(c, message)
    \/ \E envelope \in env.envelopes : RemotePublish(envelope)
    \/ ListenerRecv
    \/ ListenerSend

Spec == Init /\ [][Next]_vars

\* Sequential runs: a frame, a connect or a disconnect is taken up only when
\* no handler is in progress; all clients, one board.
InitSeq ==
    /\ connections = EmptyMap
    /\ sessions = EmptyMap
    /\ rooms = EmptyMap
    /\ bus = [c \in Conns |-> <<>>]
    /\ remote = <<>>
    /\ listener = Listening
    /\ task = [c \in Conns |-> Blank]
    /\ codec = NoFrame
    /\ env = [bus_up |-> TRUE, drops |-> 0, joined |-> NoHistory, ops |-> MaxOpsSeq, connects |-> MaxConnectsSeq,
              publishes |-> MaxPublishes, envelopes |-> {RemoteEnvelope},
              bus_alone |-> TRUE, hosted |-> FALSE, outage |-> FALSE, asides |-> "first",
              sequential |-> TRUE, clients |-> Conns, colors |-> {Red},
              boards |-> [c \in Conns |-> {1}]]

SpecSeq == InitSeq /\ [][Next]_vars

\* A board near its capacity: the first k resident addresses have connected
\* and joined board 1 one after the other (ids 0 .. k-1), their writers have
\* drained their channels, and between 1 and MaxFreeCap ids are left.
ResidentsOf(k) == (NumConns + 1) .. (NumConns + k)

ResidentId(r) == r - (NumConns + 1)

InitCap ==
    \E k \in (NumIds - MaxFreeCap) .. (NumIds - 1) :
        /\ connections = [r \in ResidentsOf(k) |-> <<>>]
        /\ sessions = [r \in ResidentsOf(k) |->
                add_board(Session_new(r), 1, ResidentId(r),
                          ResidentName, ResidentColor)]
        /\ rooms = [b \in {1} |->
                [board_id |-> 1,
                 users |-> [r \in ResidentsOf(k) |->
                              [addr |-> r, user_id |-> ResidentId(r),
                               username |-> ResidentName,
                               color |-> ResidentColor]],
                 available_ids |-> k .. (NumIds - 1),
                 assigned_ids |-> 0 .. (k - 1)]]
        /\ bus = [c \in Conns |-> <<>>]
        /\ remote = <<>>
        /\ listener = Listening
        /\ task = [c \in Conns |-> Blank]
        /\ codec = NoFrame
        /\ env = [bus_up |-> TRUE, drops |-> 0, joined |-> NoHistory, ops |-> MaxOpsCap, connects |-> NumConcurrent,
                  publishes |-> MaxPublishes, envelopes |-> {RemoteEnvelope},
                  bus_alone |-> TRUE, hosted |-> FALSE, outage |-> FALSE, asides |-> "first",
                  sequential |-> FALSE, clients |-> 1 .. NumConcurrent,
                  colors |-> Colors,
                  boards |-> [c \in Conns |-> IF c = 1 THEN Boards ELSE {1}]]

SpecCap == InitCap /\ [][Next]_vars

\* The Bus: two clients on board 1, and envelopes of every kind arriving.
InitBus ==
    /\ connections = EmptyMap
    /\ sessions = EmptyMap
    /\ rooms = EmptyMap
    /\ bus = [c \in Conns |-> <<>>]
    /\ remote = <<>>
    /\ listener = Listening
    /\ task = [c \in Conns |-> Blank]
    /\ codec = NoFrame
    /\ env = [bus_up |-> TRUE, drops |-> 0, joined |-> NoHistory, ops |-> MaxOpsBus, connects |-> MaxConnectsBus,
              publishes |-> MaxPublishes, envelopes |-> BusEnvelopes,
              bus_alone |-> FALSE, hosted |-> FALSE, outage |-> FALSE, asides |-> "first",
              sequential |-> FALSE, clients |-> 1 .. NumConcurrent,
              colors |-> {Red}, boards |-> [c \in Conns |-> {1}]]

SpecBus == InitBus /\ [][Next]_vars

\* ---------------------------------------------------------------- outage
\* Two clients on board 1 while any publish to the Bus may fail.
InitOutage ==
    /\ connections = EmptyMap
    /\ sessions = EmptyMap
    /\ rooms = EmptyMap
    /\ bus = [c \in Conns |-> <<>>]
    /\ remote = <<>>
    /\ listener = Listening
    /\ task = [c \in Conns |-> Blank]
    /\ codec = NoFrame
    /\ env = [bus_up |-> TRUE, drops |-> 0, joined |-> NoHistory, ops |-> MaxOpsOutage, connects |-> MaxConnectsOutage,
              publishes |-> MaxPublishes, envelopes |-> {RemoteEnvelope},
              bus_alone |-> TRUE, hosted |-> FALSE, outage |-> TRUE, asides |-> "first",
              sequential |-> FALSE, clients |-> 1 .. NumConcurrent,
              colors |-> {Red}, boards |-> [c \in Conns |-> {1}]]

SpecOutage == InitOutage /\ [][Next]_vars

\* ---------------------------------------------------------------- asides
\* Two clients on board 1 that send Heartbeat frames and frames with
\* server-only tags at any time between their other frames.
InitAside ==
    /\ connections = EmptyMap
    /\ sessions = EmptyMap
    /\ rooms = EmptyMap
    /\ bus = [c \in Conns |-> <<>>]
    /\ remote = <<>>
    /\ listener = Listening
    /\ task = [c \in Conns |-> Blank]
    /\ codec = NoFrame
    /\ env = [bus_up |-> TRUE, drops |-> 0, joined |-> NoHistory, ops |-> MaxOpsAside, connects |-> MaxConnectsAside,
              publishes |-> MaxPublishes, envelopes |-> {RemoteEnvelope},
              bus_alone |-> TRUE, hosted |-> FALSE, outage |-> FALSE,
              asides |-> "any",
              sequential |-> FALSE, clients |-> 1 .. NumConcurrent,
              colors |-> {Red}, boards |-> [c \in Conns |-> {1}]]

SpecAside == InitAside /\ [][Next]_vars

\* ------------------------------------------------------------ coordinates
\* normalize_coord and denormalize_coord compute in f32 (IEEE 754 binary32,
\* round to nearest, ties to even).  An f32 is modelled bit-exactly as
\* man * 2^exp with man = 0 or 2^23 <= man < 2^24, a sign, and the two
\* special kinds; the values these functions produce stay far inside the
\* normal exponent range, so subnormals and overflow do not arise.  All
\* intermediate integers are kept below 2^31.
F32_MANTISSA_DIGITS == 24

U16_MAX == 65535

Num(neg, man, exp) == [kind |-> "num", neg |-> neg, man |-> man, exp |-> exp]

NaN == [kind |-> "nan", neg |-> FALSE, man |-> 0, exp |-> 0]

Infinity(neg) == [kind |-> "inf", neg |-> neg, man |-> 0, exp |-> 0]

Zero == Num(FALSE, 0, 0)

One == Num(FALSE, 2^(F32_MANTISSA_DIGITS - 1), 1 - F32_MANTISSA_DIGITS)

RECURSIVE BitLen(_)
BitLen(n) == IF n = 0 THEN 0 ELSE 1 + BitLen(n \div 2)

\* `coord as f32`: every u16 is exactly representable.
u16_as_f32(n) ==
    IF n = 0 THEN Zero
    ELSE LET s == F32_MANTISSA_DIGITS - BitLen(n)
         IN  Num(FALSE, n * 2^s, -s)

\* The f32 nearest to (hi * 2^16 + lo) * 2^exp, ties to even.
round_f32(neg, hi, lo, exp) ==
    IF hi = 0 /\ lo = 0 THEN Num(neg, 0, 0)
    ELSE IF BitLen(hi) <= F32_MANTISSA_DIGITS - 16
    THEN LET p == hi * 65536 + lo
             s == F32_MANTISSA_DIGITS - BitLen(p)
         IN  Num(neg, p * 2^s, exp - s)
    ELSE LET s    == BitLen(hi) + 16 - F32_MANTISSA_DIGITS
             kept == hi * 2^(16 - s) + lo \div 2^s
             rest == lo % 2^s
             half == 2^(s - 1)
             up   == rest > half \/ (rest = half /\ kept % 2 = 1)
             man  == IF up THEN kept + 1 ELSE kept
         IN  IF man = 2^F32_MANTISSA_DIGITS
             THEN Num(neg, man \div 2, exp + s + 1)
             ELSE Num(neg, man, exp + s)

\* `v * d` for an integer-valued f32 d with 0 < d < 2^16: the exact product
\* man * d is formed in two limbs and rounded once.
f32_mul(v, d) ==
    CASE v.kind = "nan" -> NaN
      [] v.kind = "inf" -> v
      [] OTHER ->
           LET a == v.man \div 4096
               b == v.man % 4096
               u == a * d
               c == (u % 16) * 4096 + b * d
           IN  round_f32(v.neg, u \div 16 + c \div 65536, c % 65536, v.exp)

\* Binary long division: quotient bits are produced until the quotient has
\* 24 significant bits; r is the remainder and k the number of bits added.
RECURSIVE quotient_bits(_, _, _, _)
quotient_bits(q, r, k, d) ==
    IF q >= 2^(F32_MANTISSA_DIGITS - 1) THEN [q |-> q, r |-> r, k |-> k]
    ELSE quotient_bits(2 * q + (IF 2 * r >= d THEN 1 ELSE 0), (2 * r) % d,
                       k + 1, d)

\* The division with the quotient cut off instead of rounded.
f32_div_toward_zero(v, d) ==
    CASE v.kind = "nan" -> NaN
      [] v.kind = "inf" -> v
      [] v.man = 0 -> v
      [] OTHER ->
           LET t == quotient_bits(v.man \div d, v.man % d, 0, d)
           IN  Num(v.neg, t.q, v.exp - t.k)

\* `v / d` for an integer-valued f32 d with 0 < d < 2^16, rounded once.
f32_div(v, d) ==
    CASE v.kind = "nan" -> NaN
      [] v.kind = "inf" -> v
      [] v.man = 0 -> v
      [] OTHER ->
           LET t   == quotient_bits(v.man \div d, v.man % d, 0, d)
               up  == 2 * t.r > d \/ (2 * t.r = d /\ t.q % 2 = 1)
               man == IF up THEN t.q + 1 ELSE t.q
           IN  IF man = 2^F32_MANTISSA_DIGITS
               THEN Num(v.neg, man \div 2, v.exp - t.k + 1)
               ELSE Num(v.neg, man, v.exp - t.k)

is_zero(v) == v.kind = "num" /\ v.man = 0

\* |a| < |b| for a, b not NaN.
magnitude_lt(a, b) ==
    IF a.kind = "inf" THEN FALSE
    ELSE IF b.kind = "inf" THEN TRUE
    ELSE IF b.man = 0 THEN FALSE
    ELSE IF a.man = 0 THEN TRUE
    ELSE a.exp < b.exp \/ (a.exp = b.exp /\ a.man < b.man)

\* a < b as f32 compares: false with a NaN, and -0.0 is not below 0.0.
f32_lt(a, b) ==
    IF a.kind = "nan" \/ b.kind = "nan" THEN FALSE
    ELSE IF is_zero(a) /\ is_zero(b) THEN FALSE
    ELSE IF a.neg /\ ~b.neg THEN TRUE
    ELSE IF ~a.neg /\ b.neg THEN FALSE
    ELSE IF a.neg THEN magnitude_lt(b, a)
    ELSE magnitude_lt(a, b)

\* f32::clamp: a NaN stays a NaN.
clamp(v, min, max) ==
    IF f32_lt(v, min) THEN min
    ELSE IF f32_lt(max, v) THEN max
    ELSE v

\* `v as u16` if the cast rounded to the nearest integer (f32::round, half
\* away from zero) instead of truncating.
f32_round_as_u16(v) ==
    CASE v.kind = "nan" -> 0
      [] v.kind = "inf" -> IF v.neg THEN 0 ELSE U16_MAX
      [] v.man = 0 \/ v.neg -> 0
      [] v.exp >= 17 - F32_MANTISSA_DIGITS -> U16_MAX
      [] v.exp < -F32_MANTISSA_DIGITS -> 0
      [] OTHER ->
           LET n == (v.man \div 2^(-v.exp - 1) + 1) \div 2
           IN  IF n > U16_MAX THEN U16_MAX ELSE n

\* `v as u16`: truncation toward zero, saturating, NaN to 0.
f32_as_u16(v) ==
    CASE v.kind = "nan" -> 0
      [] v.kind = "inf" -> IF v.neg THEN 0 ELSE U16_MAX
      [] v.man = 0 \/ v.neg -> 0
      [] v.exp >= 17 - F32_MANTISSA_DIGITS -> U16_MAX
      [] v.exp <= -F32_MANTISSA_DIGITS -> 0
      [] OTHER -> v.man \div 2^(-v.exp)

normalize_coord(coord) == f32_as_u16(f32_mul(clamp(coord, Zero, One), U16_MAX))

denormalize_coord(coord) == f32_div(u16_as_f32(coord), U16_MAX)

\* Inputs of normalize_coord: the values the doc comments and tests use,
\* values on both sides of each clamp boundary, the special values, and what
\* denormalize_coord returns.
Half == Num(FALSE, 2^23, -24)

CoordSamples == {0, 1, 2, 3, 255, 256, 21845, 32767, 32768, 43690, 65534, 65535}

Floats ==
    {Zero, One, Half, NaN, Infinity(FALSE), Infinity(TRUE),
     Num(TRUE, 0, 0),               \* -0.0
     Num(FALSE, 2^23, -25),         \* 0.25
     Num(FALSE, 3 * 2^22, -24),     \* 0.75
     Num(FALSE, 10066330, -25),     \* 0.3
     Num(FALSE, 11744051, -24),     \* 0.7
     Num(FALSE, 15099494, -24),     \* 0.9
     Num(TRUE, 2^23, -24),          \* -0.5, as in test_normalize_clamps
     Num(FALSE, 3 * 2^22, -23),     \* 1.5, as in test_normalize_clamps
     Num(FALSE, 2^24 - 1, -24),     \* the largest f32 below 1.0
     Num(FALSE, 2^23 + 1, -23),     \* the smallest f32 above 1.0
     Num(TRUE, 2^23, -60),          \* just below 0.0
     Num(FALSE, 2^23, -60),         \* just above 0.0
     Num(FALSE, 2^23, -39),         \* 2^-16, whose product is just below 1
     Num(FALSE, 2^23, 40)}          \* 2^63
    \cup {denormalize_coord(n) : n \in CoordSamples}

\* The codec takes a u16 to denormalise and normalises the result, or takes
\* an f32 to normalise.
Denormalize ==
    /\ codec.pc = "coord"
    /\ codec' = [codec EXCEPT !.pc = "denormalized",
                              !.v = denormalize_coord(codec.coord)]
    /\ UNCHANGED <<connections, sessions, rooms, bus, remote, listener, task, env>>

Normalize ==
    /\ codec.pc \in {"denormalized", "float"}
    /\ codec' = [codec EXCEPT !.pc = "normalized",
                              !.result = normalize_coord(codec.v)]
    /\ UNCHANGED <<connections, sessions, rooms, bus, remote, listener, task, env>>

NextCoord == Denormalize \/ Normalize

InitCoord ==
    /\ connections = EmptyMap
    /\ sessions = EmptyMap
    /\ rooms = EmptyMap
    /\ bus = [c \in Conns |-> <<>>]
    /\ remote = <<>>
    /\ listener = Listening
    /\ task = [c \in Conns |-> Blank]
    /\ env = [bus_up |-> TRUE, drops |-> 0, joined |-> NoHistory, ops |-> 0, connects |-> 0, publishes |-> 0, envelopes |-> {},
              bus_alone |-> TRUE, hosted |-> FALSE, outage |-> FALSE,
              asides |-> "first", sequential |-> TRUE, clients |-> {},
              colors |-> {Red}, boards |-> [c \in Conns |-> {}]]
    /\ codec \in
         {[pc |-> "coord", from |-> "coord", coord |-> n, v |-> Zero,
           result |-> 0] : n \in 0 .. U16_MAX}
         \cup {[pc |-> "float", from |-> "float", coord |-> 0, v |-> f,
                result |-> 0] : f \in Floats}

SpecCoord == InitCoord /\ [][NextCoord]_vars

\* ------------------------------------------------------------ scheduling
\* The steps a handler of connection c takes once its frame has been read:
\* the task of the connection (main.rs, tokio::spawn of handle_connection)
\* is run by the runtime whenever it can go on.
HandlerStep(c) ==
    \/ ConnectSession(c)
    \/ DisconnectLeave(c)
    \/ DisconnectRemoveConnection(c)
    \/ DisconnectRemoveSession(c)
    \/ JoinRoom(c)
    \/ JoinSession(c)
    \/ JoinPublishUserJoined(c)
    \/ JoinSendUserJoined(c)
    \/ JoinPublishPresence(c)
    \/ JoinSendPresence(c)
    \/ LeaveRoom(c)
    \/ LeaveSession(c)
    \/ LeavePublishUserLeft(c)
    \/ LeaveSendUserLeft(c)
    \/ LeavePublishPresence(c)
    \/ LeaveSendPresence(c)
    \/ LeaveDeleteRoom(c)
    \/ CursorPublish(c)
    \/ CursorSend(c)

\* The steps of the listener task (start_redis_listener, tokio::spawn).
ListenerStep == ListenerRecv \/ ListenerSend

\* The runtime runs every task that can go on; what the clients and the
\* other instances send, and when a client closes, is up to them.
Fairness ==
    /\ \A c \in Conns : WF_vars(HandlerStep(c))
    /\ WF_vars(ListenerStep)

\* Two clients on board 1, one envelope from another instance, on the global
\* channel or on the channel of board 1; handlers and listener interleave.
InitLive ==
    /\ connections = EmptyMap
    /\ sessions = EmptyMap
    /\ rooms = EmptyMap
    /\ bus = [c \in Conns |-> <<>>]
    /\ remote = <<>>
    /\ listener = Listening
    /\ task = [c \in Conns |-> Blank]
    /\ codec = NoFrame
    /\ env = [bus_up |-> TRUE, drops |-> 0, joined |-> NoHistory, ops |-> MaxOpsLive, connects |-> MaxConnectsLive,
              publishes |-> MaxPublishes,
              envelopes |-> {RemoteEnvelope,
                             Envelope(board_channel(1), OtherInstance,
                                      RemoteCursor)},
              bus_alone |-> FALSE, hosted |-> TRUE, outage |-> FALSE, asides |-> "first",
              sequential |-> FALSE, clients |-> 1 .. NumConcurrent,
              colors |-> {Red}, boards |-> [c \in Conns |-> {1}]]

SpecLive == InitLive /\ [][Next]_vars /\ Fairness

\* ------------------------------------------- the writer task, Ping frames
\* The Pong that the read loop queues for a Ping.
Pong == [type |-> "Pong"]

\* The writer task of c ends: write.send returned an error (the transport
\* failed on the outbound side) and the task left its loop, dropping rx.
WriterStops(c) ==
    /\ task[c].writer = "running"
    /\ task' = [task EXCEPT ![c].writer = "stopped"]
    /\ UNCHANGED <<connections, sessions, rooms, bus, remote, listener, env, codec>>

\* A Ping frame is read: tx.send(Pong) on the task's own sender, no lock
\* taken; when that fails (the writer has finished) the loop is left.
Ping(c) ==
    /\ task[c].pc = "idle"
    /\ env.ops > 0
    /\ CanStart(c)
    /\ env' = [env EXCEPT !.ops = @ - 1]
    /\ IF task[c].writer = "stopped"
       THEN /\ task' = [task EXCEPT ![c] = LoopEnded(c)]
            /\ connections' = connections
       ELSE /\ task' = [task EXCEPT ![c] = Returned(@)]
            /\ connections' = [connections EXCEPT ![c] = tx_send(c, Pong)]
    /\ UNCHANGED <<sessions, rooms, bus, remote, listener, codec>>

NextLink ==
    \/ Next
    \/ \E c \in Conns : WriterStops(c)
    \/ \E c \in Conns : Ping(c)

\* Two clients on board 1 whose writer tasks may end at any time.
InitLink ==
    /\ connections = EmptyMap
    /\ sessions = EmptyMap
    /\ rooms = EmptyMap
    /\ bus = [c \in Conns |-> <<>>]
    /\ remote = <<>>
    /\ listener = Listening
    /\ task = [c \in Conns |-> Blank]
    /\ codec = NoFrame
    /\ env = [bus_up |-> TRUE, drops |-> 0, joined |-> NoHistory, ops |-> MaxOpsLink,
              connects |-> MaxConnectsLink, publishes |-> MaxPublishes,
              envelopes |-> {RemoteEnvelope},
              bus_alone |-> FALSE, hosted |-> TRUE, outage |-> FALSE,
              asides |-> "first", sequential |-> FALSE,
              clients |-> 1 .. NumConcurrent, colors |-> {Red},
              boards |-> [c \in Conns |-> {1}]]

\* The runtime runs the handlers and the listener; when a transport fails,
\* and what a client sends, is up to the network and the client.
SpecLink == InitLink /\ [][NextLink]_vars /\ Fairness

\* ------------------------------------------------ subscribe_with_retry
\* The Bus becomes unreachable: the connection of the subscription is lost,
\* the forwarding task of RedisPubSub::subscribe sees its stream end and
\* drops tx.
BusDown ==
    /\ env.bus_up
    /\ env.drops > 0
    /\ env' = [env EXCEPT !.bus_up = FALSE, !.drops = @ - 1]
    /\ listener' = [listener EXCEPT !.open = FALSE]
    /\ UNCHANGED <<connections, sessions, rooms, bus, remote, task, codec>>

\* The Bus becomes reachable again.
BusUp ==
    /\ ~ env.bus_up
    /\ env' = [env EXCEPT !.bus_up = TRUE]
    /\ UNCHANGED <<connections, sessions, rooms, bus, remote, listener, task, codec>>

\* Mutant of ListenerSubscribe: the task ends when subscribe returns Err.
ListenerSubscribe_gives_up ==
    /\ listener.pc = "subscribe"
    /\ listener' =
         IF env.bus_up
         THEN [listener EXCEPT !.pc = "recv", !.open = TRUE, !.stream = <<>>,
                               !.log = ""]
         ELSE [listener EXCEPT !.pc = "ended", !.log = "failed to subscribe"]
    /\ UNCHANGED <<connections, sessions, rooms, bus, remote, task, env, codec>>

\* The head of the loop: redis_pubsub.subscribe(channels); Ok(stream) goes
\* on to stream.recv(), Err is logged and followed by the sleeps.
ListenerSubscribe ==
    /\ listener.pc = "subscribe"
    /\ listener' =
         IF env.bus_up
         THEN [listener EXCEPT !.pc = "recv", !.open = TRUE, !.stream = <<>>,
                               !.log = ""]
         ELSE [listener EXCEPT !.pc = "backoff", !.log = "failed to subscribe"]
    /\ UNCHANGED <<connections, sessions, rooms, bus, remote, task, env, codec>>

\* stream.recv() returns None: everything forwarded has been taken and tx
\* is dropped; the warn! line, then the sleep at the end of the loop body.
ListenerStreamEnds ==
    /\ listener.pc = "recv"
    /\ listener.stream = <<>>
    /\ ~ listener.open
    /\ listener' = [listener EXCEPT !.pc = "backoff", !.log = "stream ended"]
    /\ UNCHANGED <<connections, sessions, rooms, bus, remote, task, env, codec>>

\* The sleeps are over (5 s after an Err, then 100 ms): the loop starts again.
ListenerBackoff ==
    /\ listener.pc = "backoff"
    /\ listener' = [listener EXCEPT !.pc = "subscribe"]
    /\ UNCHANGED <<connections, sessions, rooms, bus, remote, task, env, codec>>

\* The steps of the listener task, those of the retry loop included.
ListenerRetryStep ==
    \/ ListenerStep
    \/ ListenerSubscribe
    \/ ListenerStreamEnds
    \/ ListenerBackoff

NextRetry ==
    \/ Next
    \/ BusDown
    \/ BusUp
    \/ ListenerSubscribe
    \/ ListenerStreamEnds
    \/ ListenerBackoff

\* The runtime runs every task that can go on, the timers of sleep expire;
\* when the Bus is reachable is up to the Bus.
FairnessRetry ==
    /\ \A c \in Conns : WF_vars(HandlerStep(c))
    /\ WF_vars(ListenerRetryStep)

\* Two clients on board 1, one frame at a time, with the listener running
\* beside them; the listener task has just been spawned and has not
\* subscribed yet; the Bus is reachable or not, and may become
\* unreachable MaxDrops times.
InitRetry ==
    /\ connections = EmptyMap
    /\ sessions = EmptyMap
    /\ rooms = EmptyMap
    /\ bus = [c \in Conns |-> <<>>]
    /\ remote = <<>>
    /\ listener = [Listening EXCEPT !.pc = "subscribe", !.open = FALSE]
    /\ task = [c \in Conns |-> Blank]
    /\ codec = NoFrame
    /\ \E up \in BOOLEAN :
         env = [bus_up |-> up, drops |-> MaxDrops, joined |-> NoHistory,
                ops |-> MaxOpsRetry,
                connects |-> MaxConnectsRetry, publishes |-> MaxPublishes,
                envelopes |-> {RemoteEnvelope},
                bus_alone |-> FALSE, hosted |-> TRUE, outage |-> FALSE,
                asides |-> "first", sequential |-> TRUE,
                clients |-> 1 .. NumConcurrent, colors |-> {Red},
                boards |-> [c \in Conns |-> {1}]]

SpecRetry == InitRetry /\ [][NextRetry]_vars /\ FairnessRetry

\* Colours: two clients on board 1, one after the other, every Join given
\* any of the colours generate_color can return.
InitColor ==
    /\ connections = EmptyMap
    /\ sessions = EmptyMap
    /\ rooms = EmptyMap
    /\ bus = [c \in Conns |-> <<>>]
    /\ remote = <<>>
    /\ listener = Listening
    /\ task = [c \in Conns |-> Blank]
    /\ codec = NoFrame
    /\ env = [bus_up |-> TRUE, drops |-> 0, joined |-> NoHistory, ops |-> MaxOpsColor, connects |-> MaxConnectsColor,
              publishes |-> MaxPublishes, envelopes |-> {RemoteEnvelope},
              bus_alone |-> TRUE, hosted |-> FALSE, outage |-> FALSE,
              asides |-> "first", sequential |-> TRUE,
              clients |-> 1 .. NumConcurrent, colors |-> generate_color,
              boards |-> [c \in Conns |-> {1}]]

SpecColor == InitColor /\ [][Next]_vars

\* Boards and addresses: two clients on board 1, an envelope for board 1
\* from another instance, handlers and listener interleaving, an address
\* that may connect again after it has disconnected; a record is kept of
\* the boards each connection has joined since it connected.
InitLeak ==
    /\ connections = EmptyMap
    /\ sessions = EmptyMap
    /\ rooms = EmptyMap
    /\ bus = [c \in Conns |-> <<>>]
    /\ remote = <<>>
    /\ listener = Listening
    /\ task = [c \in Conns |-> Blank]
    /\ codec = NoFrame
    /\ env = [bus_up |-> TRUE, drops |-> 0, joined |-> [c \in Conns |-> {}],
              ops |-> MaxOpsLeak, connects |-> MaxConnectsLeak,
              publishes |-> MaxPublishes, envelopes |-> {RemoteEnvelope},
              bus_alone |-> FALSE, hosted |-> TRUE, outage |-> FALSE,
              asides |-> "first", sequential |-> FALSE,
              clients |-> 1 .. NumConcurrent, colors |-> {Red},
              boards |-> [c \in Conns |-> {1}]]

SpecLeak == InitLeak /\ [][Next]_vars

\* ================================================================ properties
\* The Session view: the session of c lists board b.
Holds(c, b) == c \in DOMAIN sessions /\ is_in_board(sessions[c], b)

\* The Room registry view: c is a member of rooms[b].
IsMember(c, b) == b \in DOMAIN rooms /\ contains_user(rooms[b], c)

\* c has no Join, Leave, connect or disconnect of its own in progress.
Quiet(c) == task[c].pc \in {"idle", "closed"}

\* C1: in every reachable state in which connection c has no Join, Leave or
\* disconnect of its own in progress, for every board b the Session of c
\* holds b if and only if c is a member of rooms[b].
C1_SessionMatchesRooms ==
    \A c \in Conns : Quiet(c) =>
        \A b \in Boards : Holds(c, b) <=> IsMember(c, b)

\* C2: a Room is either absent from the registry or has at least one member:
\* no state shows a registered room with zero members.
C2_NoEmptyRoom ==
    \A b \in DOMAIN rooms : user_count(rooms[b]) >= 1

\* The user ids that the members of a room hold.
HeldIds(room) == {room.users[a].user_id : a \in DOMAIN room.users}

\* C3: no two distinct members of the same room hold the same user_id, and an
\* id that can be given to a new member (a free one) is held by no current
\* member of that room.
C3_UniqueUserIds ==
    \A b \in DOMAIN rooms :
        /\ Cardinality(HeldIds(rooms[b])) = user_count(rooms[b])
        /\ HeldIds(rooms[b]) \cap rooms[b].available_ids = {}

\* C3 witness: board 1 is full, address 1 has left it (its UserLeft for id
\* 255 is published) and address 2 is now the member that holds id 255.
C3_Witness ==
    /\ IsMember(2, 1)
    /\ rooms[1].users[2].user_id = NumIds - 1
    /\ user_count(rooms[1]) = NumIds
    /\ \E i \in DOMAIN bus[1] : bus[1][i].payload = UserLeft(1, NumIds - 1)

\* C4: for every room in the registry the free and the assigned id sets are
\* disjoint and together are exactly 0..=255 (|assigned| + |free| = 256); a
\* newly created room has all 256 ids free and none assigned.
C4_IdSetsPartition ==
    /\ \A b \in DOMAIN rooms :
          /\ rooms[b].available_ids \cap rooms[b].assigned_ids = {}
          /\ rooms[b].available_ids \cup rooms[b].assigned_ids = 0 .. 255
          /\ Cardinality(rooms[b].available_ids)
               + Cardinality(rooms[b].assigned_ids) = 256
    /\ \A b \in Boards :
          /\ Room_new(b).available_ids = 0 .. 255
          /\ Room_new(b).assigned_ids = {}

\* C4 witness: a room in which id 1 is assigned and id 0, once assigned, has
\* been released again.
C4_Witness ==
    \E b \in DOMAIN rooms :
        /\ 1 \in rooms[b].assigned_ids
        /\ 0 \in rooms[b].available_ids

\* A step in which the Join of c gets its user id.
JoinAssigned(c) == task[c].pc = "join_room" /\ task'[c].pc = "join_session"

\* A step in which the Leave or disconnect of member c takes c out of its room.
LeaveRemoved(c) ==
    /\ task[c].pc = "leave_room"
    /\ task'[c].pc = "leave_session"
    /\ IsMember(c, task[c].board_id)

\* The ids free in the room of board b; of a board without a room, all.
FreeIds(b) ==
    IF b \in DOMAIN rooms THEN rooms[b].available_ids ELSE 0 .. 255

\* C5: every successful Join is given the smallest user_id that is free in
\* the room at that moment, and the id of a member that leaves or disconnects
\* is free again right after it.
C5_LowestFreeId ==
    [][\A c \in Conns :
        /\ JoinAssigned(c) =>
              LET b == task[c].board_id
                  id == rooms'[b].users[c].user_id
              IN  /\ id \in FreeIds(b)
                  /\ \A j \in FreeIds(b) : id <= j
                  /\ task'[c].user_id = id
        /\ LeaveRemoved(c) =>
              LET b == task[c].board_id
              IN  rooms[b].users[c].user_id \in rooms'[b].available_ids]_vars

\* C5 witness: Alice, Bob and Carol joined board 1 in turn (ids 0, 1, 2), the
\* holder of 1 disconnected, and the next Join got id 1: Alice's channel.
C5_Witness ==
    /\ 1 \in DOMAIN connections
    /\ connections[1] =
         << PresenceUpdate(1, 1),
            UserJoined(1, 1, "Bob", Red), PresenceUpdate(1, 2),
            UserJoined(1, 2, "Carol", Red), PresenceUpdate(1, 3),
            UserLeft(1, 1), PresenceUpdate(1, 2),
            UserJoined(1, 1, "Bob", Red), PresenceUpdate(1, 3) >>
    /\ 2 \notin DOMAIN sessions \/ ~ is_in_board(sessions[2], 1)
         \/ sessions[2].boards[1].user_id = 1

\* The number of members of board b's room; 0 when there is no room.
Members(b) == IF b \in DOMAIN rooms THEN user_count(rooms[b]) ELSE 0

C7_DuplicateJoinIgnored ==
    [][\A c \in Conns : \A b \in Boards :
        (JoinCheck(c, b, Username(c)) /\ Holds(c, b)) =>
            /\ UNCHANGED <<connections, sessions, rooms, bus>>
            /\ task'[c].pc = "idle"]_vars

\* The UserJoined messages that address c has published.
PublishedJoins(c) ==
    SelectSeq(bus[c], LAMBDA m : m.payload.type = "UserJoined")

\* C7 witness: a connection that holds board 1 has had a second Join for it
\* turned down, and has published one UserJoined.
C7_Witness ==
    \E c \in Conns :
        /\ task[c].pc = "idle"
        /\ task[c].log = "already in room"
        /\ Holds(c, 1)
        /\ IsMember(c, 1)
        /\ Len(PublishedJoins(c)) = 1

\* The UserJoined of c's Join to board b, from what c's Session records.
SessionUserJoined(c, b) ==
    UserJoined(b, sessions[c].boards[b].user_id, Username(c),
               sessions[c].boards[b].color)

\* C8: the local fan-out of a Join's UserJoined takes the members of the
\* board's room and enqueues exactly one UserJoined{b, c's user_id, c's
\* username, c's colour} to every one of them but c; no other queue changes,
\* and no connection ever has its own UserJoined in its queue.
C8_UserJoinedToOthers ==
    [][\A c \in Conns :
        LET b == task[c].board_id
        IN  /\ (task[c].pc = "join_joined" /\ task'[c] # task[c]) =>
                  /\ connections' = connections
                  /\ IF b \in DOMAIN rooms
                     THEN /\ task'[c].pc = "join_send_joined"
                          /\ task'[c].user_addrs = DOMAIN rooms[b].users
                     ELSE task'[c].pc = "join_presence"
            /\ (task[c].pc = "join_send_joined" /\ task'[c] # task[c]) =>
                  /\ IsMember(c, b) =>
                        /\ rooms[b].users[c].user_id = sessions[c].boards[b].user_id
                        /\ rooms[b].users[c].color = sessions[c].boards[b].color
                  /\ \A a \in DOMAIN connections :
                        connections'[a] =
                            IF a # c /\ a \in task[c].user_addrs
                            THEN Append(connections[a], SessionUserJoined(c, b))
                            ELSE connections[a]
            /\ c \in DOMAIN connections =>
                  \A i \in DOMAIN connections[c] :
                      connections[c][i].type = "UserJoined" =>
                          connections[c][i].username # Username(c)]_vars

\* C8 witness: Alice has joined board 1 as its 256th member with the green
\* colour; the UserJoined is in the queue of each of the 255 others and
\* Alice's queue is empty.
C8_Witness ==
    /\ task[1].pc = "join_presence"
    /\ task[1].board_id = 1
    /\ connections[1] = << >>
    /\ \A r \in ResidentsOf(255) :
          connections[r] = << UserJoined(1, 255, "Alice", Green) >>

\* C9: on a successful Join the PresenceUpdate fan-out takes the members of
\* the room, the joiner among them, and enqueues the PresenceUpdate to each.
C9_PresenceToAllMembers ==
    [][\A c \in Conns :
        LET b == task[c].board_id
        IN  /\ (task[c].pc = "join_presence" /\ task'[c] # task[c]) =>
                  /\ task'[c].pc = "join_send_presence"
                  /\ c \in task'[c].user_addrs
                  /\ task'[c].user_addrs = DOMAIN rooms[b].users
            /\ (task[c].pc = "join_send_presence" /\ task'[c] # task[c]) =>
                  \A a \in DOMAIN connections :
                      a \in task[c].user_addrs =>
                          /\ connections'[a] # connections[a]
                          /\ connections'[a][Len(connections'[a])].type
                               = "PresenceUpdate"]_vars

\* C10: the count of the PresenceUpdate of a Join or a Leave is the number of
\* members of the room right after the membership change.
C10_CountIsMemberCount ==
    [][\A c \in Conns :
        LET b == task[c].board_id
        IN  /\ (JoinAssigned(c) \/ LeaveRemoved(c)) =>
                  task'[c].user_count = user_count(rooms'[b])
            /\ (task[c].pc \in {"join_presence", "leave_presence"}
                    /\ task'[c] # task[c]) =>
                  bus'[c] = Append(bus[c],
                      RedisMessage(b, PresenceUpdate(b, task[c].user_count)))]_vars

\* C11: a CursorUpdate{b, x, y} from a connection whose Session holds b is
\* fanned out as exactly one CursorBroadcast{b, the sender's user_id for b,
\* x, y}, x and y as in the frame, to every member of b's room but the
\* sender; the sender's queue and no other queue changes.
C11_CursorBroadcastToOthers ==
    [][\A c \in Conns :
        LET b == task[c].board_id
        IN  /\ (task[c].pc = "idle" /\ task'[c].pc = "cursor_publish") =>
                  /\ Holds(c, task'[c].board_id)
                  /\ task'[c].x = CursorX
                  /\ task'[c].y = CursorY
                  /\ connections' = connections
            /\ (task[c].pc = "cursor_publish" /\ task'[c] # task[c]) =>
                  /\ connections' = connections
                  /\ IF b \in DOMAIN rooms
                     THEN /\ task'[c].pc = "cursor_send"
                          /\ task'[c].user_addrs = DOMAIN rooms[b].users
                     ELSE task'[c].pc = "idle"
            /\ (task[c].pc = "cursor_send" /\ task'[c] # task[c]) =>
                  /\ task'[c].pc = "idle"
                  /\ \A a \in DOMAIN connections :
                        connections'[a] =
                            IF a # c /\ a \in task[c].user_addrs
                            THEN Append(connections[a],
                                    CursorBroadcast(b,
                                        sessions[c].boards[b].user_id,
                                        task[c].x, task[c].y))
                            ELSE connections[a]]_vars

\* C11 witness: Alice (user_id 0) and Bob are on board 1 and Alice has sent
\* CursorUpdate{1, 0x7FFF, 0xBFFF}: Bob's queue ends with the CursorBroadcast
\* and Alice's queue holds what her and Bob's Join put there.
C11_Witness ==
    /\ task[1].pc = "idle"
    /\ 1 \in DOMAIN connections /\ 2 \in DOMAIN connections
    /\ connections[1] = << PresenceUpdate(1, 1), UserJoined(1, 1, "Bob", Red),
                           PresenceUpdate(1, 2) >>
    /\ connections[2] = << PresenceUpdate(1, 2),
                           CursorBroadcast(1, 0, 32767, 49151) >>

\* C12: a CursorUpdate or a Leave frame for a board that the sender's Session
\* does not hold is dropped: no queue, nothing on the Bus, no Session and no
\* Room (membership, id sets) changes, and the handler is over.
C12_NotHeldDropped ==
    [][\A c \in Conns : \A b \in Boards :
        ((CursorCheck(c, b, CursorX, CursorY) \/ LeaveCheck(c, b))
            /\ ~ Holds(c, b)) =>
                /\ UNCHANGED <<connections, sessions, rooms, bus>>
                /\ task'[c].pc = "idle"]_vars

\* C12 witness: Bob is the member of board 1; Alice, connected and not on
\* the board, has had a frame for it dropped; nothing reached Bob or the Bus.
C12_Witness ==
    /\ task[1].pc = "idle"
    /\ task[1].log = "not in room"
    /\ ~ Holds(1, 1)
    /\ bus[1] = << >>
    /\ connections[1] = << >>
    /\ IsMember(2, 1)
    /\ connections[2] = << PresenceUpdate(1, 1) >>

\* C13: when member c leaves board b (Leave frame or disconnect), the
\* UserLeft{b, c's user_id} fan-out takes the remaining members of the room
\* and enqueues it to each of them, never to c; a PresenceUpdate with the
\* remaining count follows, to all remaining members, if and only if that
\* count is greater than 0.
C13_UserLeftThenPresence ==
    [][\A c \in Conns :
        LET b == task[c].board_id
            others(m) == \A a \in DOMAIN connections :
                            connections'[a] =
                                IF a # c /\ a \in task[c].user_addrs
                                THEN Append(connections[a], m)
                                ELSE connections[a]
        IN  /\ LeaveRemoved(c) =>
                  /\ task[c].user_id = rooms[b].users[c].user_id
                  /\ task'[c].user_count = user_count(rooms'[b])
                  /\ c \notin DOMAIN rooms'[b].users
            /\ (task[c].pc = "leave_left" /\ task'[c] # task[c]) =>
                  /\ connections' = connections
                  /\ b \in DOMAIN rooms =>
                        /\ task'[c].pc = "leave_send_left"
                        /\ task'[c].user_addrs = DOMAIN rooms[b].users
            /\ (task[c].pc = "leave_send_left" /\ task'[c] # task[c]) =>
                  /\ others(UserLeft(b, task[c].user_id))
                  /\ task'[c].pc = "leave_presence" <=> task[c].user_count > 0
            /\ (task[c].pc = "leave_presence" /\ task'[c] # task[c]) =>
                  /\ task[c].user_count > 0
                  /\ connections' = connections
                  /\ b \in DOMAIN rooms =>
                        /\ task'[c].pc = "leave_send_presence"
                        /\ task'[c].user_addrs = DOMAIN rooms[b].users
            /\ (task[c].pc = "leave_send_presence" /\ task'[c] # task[c]) =>
                  others(PresenceUpdate(b, task[c].user_count))]_vars

\* C13 witness: Alice and Bob are on board 1 and Bob has left: Alice's queue
\* ends with UserLeft{1, 1} and PresenceUpdate{1, 1}; Bob's queue holds the
\* PresenceUpdate of his Join only.
C13_Witness ==
    /\ task[2].pc = "idle"
    /\ 1 \in DOMAIN connections /\ 2 \in DOMAIN connections
    /\ connections[1] = << PresenceUpdate(1, 1), UserJoined(1, 1, "Bob", Red),
                           PresenceUpdate(1, 2), UserLeft(1, 1),
                           PresenceUpdate(1, 1) >>
    /\ connections[2] = << PresenceUpdate(1, 2) >>
    /\ ~ Holds(2, 1)

\* Connection c has left board b: it has published a UserLeft for it.
HasLeft(c, b) ==
    \E i \in DOMAIN bus[c] :
        /\ bus[c][i].payload.type = "UserLeft"
        /\ bus[c][i].payload.board_id = b

\* C14: once the Leave of a connection for board b has completed (the
\* connection is back in its read loop, its Session does not hold b and it
\* is no member of b's room), no step enqueues a frame for b to it.
C14_NoFrameAfterLeave ==
    [][\A c \in Conns : \A b \in Boards :
        (/\ Quiet(c) /\ HasLeft(c, b)
         /\ ~ Holds(c, b) /\ ~ IsMember(c, b)
         /\ c \in DOMAIN connections /\ c \in DOMAIN connections'
         /\ connections'[c] # connections[c]) =>
            LET frame == connections'[c][Len(connections'[c])]
            IN  ~ (frame.type \in BroadcastKinds /\ frame.board_id = b)]_vars

\* C15: once the disconnect of a connection has completed, the connection
\* has no entry in sessions or connections and is a member of no room, so it
\* holds no user id, whatever the other connections did in the meantime.
C15_DisconnectCleansUp ==
    \A c \in Conns :
        task[c].pc = "closed" =>
            /\ c \notin DOMAIN sessions
            /\ c \notin DOMAIN connections
            /\ \A b \in DOMAIN rooms : c \notin DOMAIN rooms[b].users

\* Connection 1 was on both boards and its disconnect, which left both, has
\* completed while connection 2 is on board 1.
C15_Witness ==
    /\ task[1].pc = "closed"
    /\ HasLeft(1, 1) /\ HasLeft(1, 2)
    /\ IsMember(2, 1)

\* s can be obtained from t by deleting elements.
RECURSIVE IsSubsequence(_, _)
IsSubsequence(s, t) ==
    IF s = <<>> THEN TRUE
    ELSE IF t = <<>> THEN FALSE
    ELSE IF Head(s) = Head(t) THEN IsSubsequence(Tail(s), Tail(t))
    ELSE IsSubsequence(s, Tail(t))

\* The broadcasts that the frames of connection c produced for board b, in
\* the order its handlers produced them. UserJoined carries the sender's
\* name and every CursorBroadcast its own coordinates, which tells whose
\* frame a queued broadcast came from.
SentBy(c, b) ==
    LET FromFrame(e) == /\ e.payload.type \in {"UserJoined", "CursorBroadcast"}
                        /\ e.payload.board_id = b
        sent == SelectSeq(bus[c], FromFrame)
    IN  [i \in DOMAIN sent |-> sent[i].payload]

\* The broadcasts of connection c's frames for board b in the queue of a.
ReceivedFrom(a, c, b) ==
    LET FromSender(m) ==
            /\ m.type \in {"UserJoined", "CursorBroadcast"}
            /\ m.board_id = b
            /\ \E i \in DOMAIN bus[c] : bus[c][i].payload = m
    IN  SelectSeq(connections[a], FromSender)

\* C16: the broadcasts that the frames of one connection produce for one
\* board arrive in the queue of every local receiver in the order in which
\* the connection sent the frames.
C16_SendOrderKept ==
    \A c \in env.clients : \A a \in DOMAIN connections : \A b \in Boards :
        IsSubsequence(ReceivedFrom(a, c, b), SentBy(c, b))

\* Bob sent Join and then CursorUpdate for board 1 and Alice's queue holds
\* both broadcasts.
C16_Witness ==
    /\ 1 \in DOMAIN connections
    /\ ReceivedFrom(1, 2, 1) =
            <<UserJoined(1, 1, "Bob", Red), CursorBroadcast(1, 1, CursorX, 49151)>>

\* The envelope was published by another instance at a moment when
\* connection c was a local member of board b.
PublishedToMember(envelope, c, b) ==
    \E i \in DOMAIN remote :
        /\ remote[i].envelope = envelope
        /\ b \in DOMAIN remote[i].hosted
        /\ c \in remote[i].hosted[b]

\* C17: an event that another instance published to the channel of board b
\* while connection c was a local member of b is eventually enqueued to c,
\* unless c stops being a member: Alice's CursorBroadcast, published by her
\* instance for the board she shares with Bob, eventually reaches Bob.
C17_BusEventReachesMembers ==
    \A c \in Conns :
        (/\ PublishedToMember(Envelope(board_channel(1), OtherInstance,
                                        RemoteCursor), c, 1)
         /\ IsMember(c, 1) /\ Holds(c, 1) /\ ~ HasLeft(c, 1))
        ~> (\/ ~ IsMember(c, 1)
            \/ /\ c \in DOMAIN connections
               /\ \E i \in DOMAIN connections[c] :
                     connections[c][i] = RemoteCursor)

\* The listener takes the next envelope from its stream in this step.
ListenerTakes ==
    /\ listener.pc = "recv"
    /\ Len(listener'.stream) < Len(listener.stream)

\* C18: an envelope that carries this instance's own instance id is skipped
\* by the listener whatever its payload is: no fan-out is begun and no queue
\* changes.
C18_OwnEnvelopeSkipped ==
    [][(ListenerTakes /\ Head(listener.stream).instance_id = InstanceId) =>
            /\ listener'.pc = "recv"
            /\ listener'.user_addrs = {}
            /\ UNCHANGED <<connections, sessions, rooms, bus>>]_vars

\* An envelope with the own instance id, published while connections 1 and
\* 2 were members of the payload's board, has been taken and skipped.
C18_Witness ==
    /\ listener.log = "own instance"
    /\ listener.stream = <<>>
    /\ remote = <<[envelope |-> Envelope(global_channel, InstanceId, RemoteCursor),
                   hosted |-> EmptyMap]>>
    /\ IsMember(1, 1) /\ IsMember(2, 1)

\* C19: an envelope of another instance is fanned out only when its payload
\* decodes to UserJoined, UserLeft, CursorBroadcast or PresenceUpdate, and
\* then to all local members of the payload's board with nobody left out;
\* every other envelope is dropped. A step of the listener publishes nothing
\* and changes no Session and no Room (membership, id sets).
C19_OnlyBroadcastKindsFannedOut ==
    [][/\ (ListenerTakes /\ Head(listener.stream).instance_id # InstanceId) =>
            LET envelope == Head(listener.stream)
                payload == envelope.payload
                fans == /\ payload.type # "Malformed"
                        /\ payload.type \in {"UserJoined", "UserLeft",
                                              "CursorBroadcast", "PresenceUpdate"}
            IN  /\ UNCHANGED <<connections, sessions, rooms, bus>>
                /\ IF fans /\ payload.board_id \in DOMAIN rooms
                   THEN /\ listener'.pc = "send"
                        /\ listener'.message = payload
                        /\ listener'.user_addrs =
                                DOMAIN rooms[payload.board_id].users
                   ELSE /\ listener'.pc = "recv"
                        /\ listener'.user_addrs = {}
       /\ (listener.pc = "send" /\ listener'.pc # "send") =>
            /\ UNCHANGED <<sessions, rooms, bus>>
            /\ DOMAIN connections' = DOMAIN connections
            /\ \A a \in DOMAIN connections :
                  connections'[a] =
                      IF a \in listener.user_addrs
                      THEN Append(connections[a], listener.message)
                      ELSE connections[a]]_vars

\* Another instance's UserJoined for board 1 has been fanned out to both
\* local members of board 1, and nothing was published for it.
C19_Witness ==
    /\ listener.pc = "recv"
    /\ \A c \in {1, 2} :
          /\ IsMember(c, 1)
          /\ c \in DOMAIN connections
          /\ connections[c] # <<>>
          /\ connections[c][Len(connections[c])] =
                UserJoined(1, 200, "Zoe", Green)
    /\ \A c \in Conns : \A i \in DOMAIN bus[c] :
          bus[c][i].payload # UserJoined(1, 200, "Zoe", Green)

\* C20: a connection that has joined a board and sends no further frame is
\* eventually terminated by the server, which runs the leave for all its
\* boards: its Session is removed and it is a member of no room.
C20_IdleConnectionTerminated ==
    \A c \in Conns :
        (Holds(c, 1) /\ IsMember(c, 1) /\ task[c].pc = "idle")
        ~> (c \notin DOMAIN sessions /\ ~ IsMember(c, 1))

\* The position of a handler right before it publishes, and the position of
\* the fan-out that follows each of them.
FanOutAfter ==
    [join_joined |-> "join_send_joined", join_presence |-> "join_send_presence",
     leave_left |-> "leave_send_left", leave_presence |-> "leave_send_presence",
     cursor_publish |-> "cursor_send"]

\* The fan-outs that leave out the sender.
ExcludesSender == {"join_send_joined", "leave_send_left", "cursor_send"}

\* C21: when the publish of an event to the Bus fails, the handler goes on
\* exactly as after a successful publish: the publish step changes no queue,
\* Session or Room, the fan-out that follows takes the members of the room
\* as its recipients, and the fan-out enqueues to exactly these recipients
\* whatever the Bus holds.
C21_PublishFailureKeepsFanOut ==
    [][\A c \in Conns :
        /\ (/\ task[c].pc \in DOMAIN FanOutAfter
            /\ task'[c] # task[c]
            /\ bus'[c] = bus[c]) =>
                /\ UNCHANGED <<connections, sessions, rooms>>
                /\ IF task[c].board_id \in DOMAIN rooms
                   THEN /\ task'[c].pc = FanOutAfter[task[c].pc]
                        /\ task'[c].user_addrs =
                                DOMAIN rooms[task[c].board_id].users
                   ELSE task'[c].pc \notin
                            {FanOutAfter[pc] : pc \in DOMAIN FanOutAfter}
        /\ (/\ task[c].pc \in {FanOutAfter[pc] : pc \in DOMAIN FanOutAfter}
            /\ task'[c] # task[c]) =>
                /\ UNCHANGED <<sessions, rooms, bus>>
                /\ \A a \in DOMAIN connections :
                      (connections'[a] # connections[a]) <=>
                          /\ a \in task[c].user_addrs
                          /\ a = c => task[c].pc \notin ExcludesSender]_vars

\* Every publish of the Joins of Alice and Bob failed, and the queues hold
\* what they hold after successful publishes.
C21_Witness ==
    /\ \A c \in Conns : bus[c] = <<>>
    /\ IsMember(1, 1) /\ IsMember(2, 1) /\ Holds(1, 1) /\ Holds(2, 1)
    /\ connections[1] = <<PresenceUpdate(1, 1), UserJoined(1, 1, "Bob", Red),
                          PresenceUpdate(1, 2)>>
    /\ connections[2] = <<PresenceUpdate(1, 2)>>
    /\ task[1].pc = "idle" /\ task[2].pc = "idle"

\* C22: a Heartbeat frame from a connection enqueues exactly one Heartbeat
\* on the queue of that connection and on no other queue, publishes nothing
\* and changes no Session and no Room, whether or not the connection has
\* joined a board; no Heartbeat is ever published.
C22_HeartbeatEchoedToSender ==
    [][/\ \A c \in Conns :
            HandleHeartbeat(c) =>
                /\ DOMAIN connections' = DOMAIN connections
                /\ connections'[c] = Append(connections[c], Heartbeat)
                /\ \A a \in DOMAIN connections \ {c} :
                      connections'[a] = connections[a]
                /\ UNCHANGED <<sessions, rooms, bus, listener>>
                /\ task'[c].pc = "idle"
       /\ \A c \in Conns : \A i \in DOMAIN bus'[c] :
            bus'[c][i].payload # Heartbeat]_vars

\* Bob, who has joined no board, has sent a Heartbeat and got it back, while
\* Alice, a member of board 1, got nothing from it.
C22_Witness ==
    /\ 2 \in DOMAIN connections /\ connections[2] = <<Heartbeat>>
    /\ 2 \in DOMAIN sessions /\ board_ids(sessions[2]) = {}
    /\ bus[2] = <<>>
    /\ IsMember(1, 1) /\ connections[1] = <<PresenceUpdate(1, 1)>>

\* C23: a frame with a server-only tag that a client sends is dropped: the
\* step changes no queue, Session or Room and publishes nothing, and no
\* queue and no published event ever holds such a frame.
C23_ServerFramesDropped ==
    [][/\ \A c \in Conns : \A msg \in ServerFrames :
            UnexpectedServerMessage(c, msg) =>
                /\ UNCHANGED <<connections, sessions, rooms, bus, listener>>
                /\ task'[c].pc = "idle"
       /\ \A a \in DOMAIN connections' : \A i \in DOMAIN connections'[a] :
            connections'[a][i] \notin ServerFrames
       /\ \A c \in Conns : \A i \in DOMAIN bus'[c] :
            bus'[c][i].payload \notin ServerFrames]_vars

\* Bob, a member of board 1 with Alice, has sent a frame with a server-only
\* tag; Alice's queue holds the frames of the two Joins only.
C23_Witness ==
    /\ task[2].log = "unexpected server message"
    /\ IsMember(1, 1) /\ IsMember(2, 1)
    /\ connections[1] = <<PresenceUpdate(1, 1), UserJoined(1, 1, "Bob", Red),
                          PresenceUpdate(1, 2)>>
    /\ connections[2] = <<PresenceUpdate(1, 2)>>

\* C24: decoding the encoding of a valid message of any of the eight
\* variants gives the message back.
C24_RoundTrip ==
    (codec.pc = "decoded" /\ codec.from = "message") =>
        codec.result = [ok |-> TRUE, value |-> codec.m]

\* A UserJoined with a username of 32 bytes in two-byte characters has been
\* encoded and decoded.
C24_Witness ==
    /\ codec.pc = "decoded"
    /\ codec.m = UserJoined(258, 255, Repeated(<<195, 169>>, 16), <<0, 128, 255>>)
    /\ codec.result.ok
    /\ Len(codec.data) = 40

\* The documented size of the variants of fixed size, by tag.
FixedSize == <<7, 8, 0, 3, 0, 4, 4, 1>>

\* The frame is one that must be rejected: empty, of unknown tag, of a fixed
\* size variant with another length, or a Join or UserJoined whose username
\* length exceeds 32, whose declared bytes are missing, or whose username is
\* no UTF-8.
MustBeRejected(data) ==
    \/ data = <<>>
    \/ /\ data # <<>>
       /\ \/ data[1] \notin 1 .. 8
          \/ /\ data[1] \in {1, 2, 4, 6, 7, 8}
             /\ Len(data) # FixedSize[data[1]]
          \/ /\ data[1] \in {3, 5}
             /\ LET at == IF data[1] = 3 THEN 4 ELSE 5
                    colour == IF data[1] = 3 THEN 0 ELSE 3
                IN  \/ Len(data) < at
                    \/ /\ Len(data) >= at
                       /\ \/ data[at] > 32
                          \/ Len(data) < at + data[at] + colour
                          \/ /\ Len(data) >= at + data[at]
                             /\ ~ from_utf8_ok(SubSeq(data, at + 1, at + data[at]))

\* C25: decode returns an error for the empty input, for an unknown tag, for
\* a variant of fixed size whose length is not exactly its size, and for a
\* Join or UserJoined with a username length above 32, with missing username
\* or colour bytes, or with a username that is no UTF-8.
C25_MalformedRejected ==
    (codec.pc = "decoded" /\ codec.from = "frame" /\ MustBeRejected(codec.data))
        => ~ codec.result.ok

\* A Join frame that declares a username of 33 bytes, and carries them, has
\* been rejected.
C25_Witness ==
    /\ codec.pc = "decoded"
    /\ codec.data = <<3, 0, 1, 33>> \o Repeated(<<97>>, 33)
    /\ ~ codec.result.ok

C27_CoordRoundTrip ==
    (codec.pc = "normalized" /\ codec.from = "coord")
        => codec.result = codec.coord

\* 32767 has gone through both functions; its f32 is not 0.5, and it came
\* back as 32767.
C27_Witness ==
    /\ codec.pc = "normalized"
    /\ codec.from = "coord"
    /\ codec.coord = 32767
    /\ codec.v # Half
    /\ codec.result = 32767

\* The exact value of v * 65535 for an f32 v in [0, 1], without any f32
\* rounding: the integer hi * 2^16 + lo divided by 2^shift.
exact_product(v) ==
    LET a == v.man \div 4096
        b == v.man % 4096
        u == a * U16_MAX
        c == (u % 16) * 4096 + b * U16_MAX
    IN  [hi |-> u \div 16 + c \div 65536, lo |-> c % 65536, shift |-> -v.exp]

in_unit_interval(v) == v.kind = "num" /\ ~f32_lt(v, Zero) /\ ~f32_lt(One, v)

\* floor(v * 65535) for v in [0, 1]; below 2^-17 the product is below 1/2.
floor_exact(v) ==
    LET p == exact_product(v)
    IN  IF v.man = 0 \/ p.shift > 40 THEN 0 ELSE p.hi \div 2^(p.shift - 16)

\* round(v * 65535) for v in [0, 1]: the floor, plus one when the first
\* fraction bit of the exact product is set.
round_exact(v) ==
    LET p == exact_product(v)
    IN  IF v.man = 0 \/ p.shift > 40 THEN 0
        ELSE (p.hi \div 2^(p.shift - 16)) + ((p.hi \div 2^(p.shift - 17)) % 2)

\* v * 65535 lies less than 2^-9 below the next integer: the first nine
\* fraction bits of the exact product are all set.
near_next_integer(v) ==
    LET p == exact_product(v)
        f == p.hi % 2^(p.shift - 16)
    IN  /\ v.man # 0
        /\ p.shift <= 40
        /\ IF p.shift >= 25 THEN f \div 2^(p.shift - 25) = 511
           ELSE (f * 65536 + p.lo) \div 2^(p.shift - 9) = 511

\* C28 as stated: normalize_coord clamps its input to [0, 1] (below 0 gives
\* 0, above 1 gives 65535) and maps v in [0, 1] to round(v * 65535), for
\* every input v.
C28_ClampsAndRounds ==
    codec.pc = "normalized" =>
        /\ f32_lt(codec.v, Zero) => codec.result = 0
        /\ f32_lt(One, codec.v) => codec.result = U16_MAX
        /\ in_unit_interval(codec.v) => codec.result = round_exact(codec.v)

\* C28 amended: normalize_coord clamps its input to [0, 1] (below 0 gives
\* 0, above 1 gives 65535) and maps v in [0, 1] to v * 65535 truncated
\* toward zero: the result is floor(v * 65535), or that plus one when
\* v * 65535 lies less than 2^-9 below the next integer (where the f32
\* product can round up to it), for every input v.
C28_ClampsAndTruncates ==
    codec.pc = "normalized" =>
        /\ f32_lt(codec.v, Zero) => codec.result = 0
        /\ f32_lt(One, codec.v) => codec.result = U16_MAX
        /\ in_unit_interval(codec.v) =>
             \/ codec.result = floor_exact(codec.v)
             \/ /\ codec.result = floor_exact(codec.v) + 1
                /\ near_next_integer(codec.v)

\* 0.5 has been normalised to 32767, where round(0.5 * 65535) is 32768.
C28_Witness ==
    /\ codec.pc = "normalized"
    /\ codec.from = "float"
    /\ codec.v = Half
    /\ codec.result = 32767
    /\ round_exact(Half) = 32768

\* The positions of a task inside handle_leave_internal.
LeavePcs ==
    {"leave_room", "leave_session", "leave_left", "leave_send_left",
     "leave_presence", "leave_send_presence", "leave_delete"}

\* The step with which the handler of a Leave frame of c returns to the
\* read loop (the leaves run by disconnect are not Leave frames).
LeaveProcessed(c) ==
    /\ task[c].pc \in LeavePcs
    /\ ~task[c].in_disconnect
    /\ task'[c].pc = "idle"

\* C29: after a Leave for board b from connection c has been fully
\* processed, the Session of c does not hold b, under any interleaving (so
\* that a later Join for b by c is not ignored as a duplicate).
C29_LeaveClearsSession ==
    [][\A c \in Conns :
         LeaveProcessed(c) =>
             ~(c \in DOMAIN sessions'
               /\ is_in_board(sessions'[c], task[c].board_id))]_vars

\* The PresenceUpdate frames for board b in an outbound queue, in order.
PresenceUpdatesFor(queue, b) ==
    SelectSeq(queue, LAMBDA m : m.type = "PresenceUpdate" /\ m.board_id = b)

\* No Join, Leave, connect or disconnect is in progress on any connection.
AllCompleted == \A c \in Conns : Quiet(c)

\* C30: once all in-flight Joins and Leaves have completed, the most recent
\* PresenceUpdate for a board in the outbound queue of each current member
\* of its room carries the room's current member count.
C30_LastPresenceIsCurrent ==
    AllCompleted =>
        \A b \in DOMAIN rooms :
            \A c \in DOMAIN rooms[b].users \cap DOMAIN connections :
                LET updates == PresenceUpdatesFor(connections[c], b)
                IN  /\ updates # <<>>
                    /\ updates[Len(updates)].count = user_count(rooms[b])

\* A handler of this instance (not the listener) puts a frame on the queue
\* of connection a in this step.
LocallyEnqueued(a) ==
    /\ task' # task
    /\ a \in DOMAIN connections /\ a \in DOMAIN connections'
    /\ Len(connections'[a]) = Len(connections[a]) + 1

\* Connection a holds user id `id` for board b, in its Session and in the Room.
HoldsId(a, b, id) ==
    /\ Holds(a, b) /\ sessions[a].boards[b].user_id = id
    /\ IsMember(a, b) /\ rooms[b].users[a].user_id = id

\* C31: no connection is enqueued a CursorBroadcast or UserLeft of its own
\* instance that carries the user id the receiver itself holds for that
\* board at that moment.
C31_NoFrameAboutSelf ==
    [][\A a \in Conns :
         LocallyEnqueued(a) =>
             LET m == connections'[a][Len(connections'[a])]
             IN  m.type \in {"CursorBroadcast", "UserLeft"}
                     => ~HoldsId(a, m.board_id, m.user_id)]_vars

\* C36: in a sequential run, once the Leave (or disconnect) of the only
\* member of a board has completed, the registry has no entry for the
\* board, and the next Join for the board creates the room anew and is
\* given user id 0.
C36_EmptiedRoomIsRecreated ==
    /\ []((\A c \in Conns : task[c].pc \notin LeavePcs)
              => \A b \in DOMAIN rooms : user_count(rooms[b]) >= 1)
    /\ [][\A c \in Conns :
            (JoinAssigned(c) /\ task[c].board_id \notin DOMAIN rooms)
                => /\ task'[c].user_id = 0
                   /\ DOMAIN rooms'[task[c].board_id].users = {c}
                   /\ rooms'[task[c].board_id].users[c].user_id = 0]_vars

\* Connection 1 was the only member of board 1 and has left it; connection
\* 2 has now joined the board, alone in a new room, with user id 0.
C36_Witness ==
    /\ HasLeft(1, 1)
    /\ task[1].pc = "idle"
    /\ ~Holds(1, 1)
    /\ task[2].pc = "join_session"
    /\ task[2].user_id = 0
    /\ DOMAIN rooms[1].users = {2}

\* C32: under fair scheduling every started operation of the manager
\* completes: a connection task that is inside connect, disconnect or a
\* frame handler gets back to its read loop or ends, and the listener gets
\* back to its stream, whatever the interleaving; no set of tasks waits
\* for the connections, sessions and rooms locks forever.
C32_OperationsComplete ==
    /\ \A c \in Conns : (~Quiet(c)) ~> Quiet(c)
    /\ (listener.pc = "send") ~> (listener.pc = "recv")

\* connect of connection 2 holds the write guard of connections and waits
\* for sessions while the Join of connection 1 waits for connections.
C32_Witness ==
    /\ task[2].pc = "connect_sessions"
    /\ task[1].pc = "join_send_joined"
    /\ ~ConnectionsFree(1)

\* C39: decode accepts only canonical frames: whenever decode has accepted
\* a byte sequence, encoding what it returned gives the same bytes again.
C39_OnlyCanonicalAccepted ==
    codec.pc = "reencoded" => codec.again = codec.data

\* The warn! lines of the read loop for a message it skips.
SkipLines == {"failed to decode message", "unexpected text message"}

\* The step in which the read loop of c skips a message: a frame of a
\* client is used up, no other task moves, and c has logged the line.
Skipped(c) ==
    /\ task[c].pc = "idle"
    /\ task[c].log \notin SkipLines
    /\ env'.ops = env.ops - 1
    /\ env'.publishes = env.publishes
    /\ \A d \in Conns \ {c} : task'[d] = task[d]
    /\ task'[c].log \in SkipLines

\* C35: a binary frame that fails to decode, or a text frame, is logged and
\* skipped: the connection stays registered and in its read loop, its
\* memberships and all other state of the manager are unchanged, nothing is
\* enqueued or published, and the next frames of the connection are taken
\* up as before.
C35_BadFrameSkipped ==
    /\ [][\A c \in Conns :
            Skipped(c) =>
                /\ UNCHANGED <<connections, sessions, rooms, bus, remote,
                               listener>>
                /\ c \in DOMAIN connections' /\ c \in DOMAIN sessions'
                /\ task'[c].pc = "idle"]_vars
    /\ [](\A c \in Conns :
            (/\ task[c].pc = "idle" /\ task[c].log \in SkipLines
             /\ env.ops > 0 /\ CanStart(c))
            => \A b \in env.boards[c] :
                 /\ ENABLED JoinCheck(c, b, Username(c))
                 /\ ENABLED LeaveCheck(c, b))

\* Connection 1 is a member of board 1 and has had a frame skipped that
\* does not decode; it is still a member and in its read loop.
C35_Witness ==
    /\ task[1].pc = "idle"
    /\ task[1].log = "failed to decode message"
    /\ Holds(1, 1) /\ IsMember(1, 1)
    /\ connections[1] # <<>>

\* A colour with exactly one channel in 180..255 and the other two in 0..150.
Vibrant(color) ==
    \E i \in 1 .. 3 :
        /\ color[i] \in 180 .. 255
        /\ \A j \in (1 .. 3) \ {i} : color[j] \in 0 .. 150

\* The largest channel of a colour.
MaxChannel(color) ==
    CHOOSE x \in {color[i] : i \in 1 .. 3} : \A i \in 1 .. 3 : color[i] <= x

\* C40: every colour a Join assigns has exactly one channel in 180..255 and
\* the other two in 0..150, so its largest channel is at least 180: this
\* holds of every colour in a Room, in a Session and in a UserJoined this
\* instance publishes; and the colour that a Join puts in its UserJoined
\* is the one it has stored in the Session and in the Room.
C40_OneDominantChannel ==
    /\ [](\A c \in Conns :
            /\ \A b \in DOMAIN rooms :
                 contains_user(rooms[b], c) =>
                    /\ Vibrant(rooms[b].users[c].color)
                    /\ MaxChannel(rooms[b].users[c].color) >= 180
            /\ \A b \in Boards :
                 Holds(c, b) => Vibrant(sessions[c].boards[b].color)
            /\ \A i \in 1 .. Len(bus[c]) :
                 bus[c][i].payload.type = "UserJoined"
                    => Vibrant(bus[c][i].payload.color))
    /\ [][\A c \in Conns :
            (task[c].pc = "join_joined" /\ task'[c] # task[c]) =>
                LET b == task[c].board_id
                    m == bus'[c][Len(bus'[c])].payload
                IN  /\ Len(bus'[c]) = Len(bus[c]) + 1
                    /\ m.type = "UserJoined" /\ m.board_id = b
                    /\ Holds(c, b)
                    /\ m.color = sessions[c].boards[b].color
                    /\ IsMember(c, b) => m.color = rooms[b].users[c].color]_vars

\* Two members of board 1 with different dominant channels, each having
\* published its UserJoined.
C40_Witness ==
    /\ IsMember(1, 1) /\ IsMember(2, 1) /\ Holds(1, 1) /\ Holds(2, 1)
    /\ rooms[1].users[1].color = <<255, 150, 0>>
    /\ rooms[1].users[2].color = <<150, 0, 180>>
    /\ Len(PublishedJoins(1)) = 1 /\ Len(PublishedJoins(2)) = 1

\* A frame is put in the queue of connection a.
Enqueued(a) ==
    /\ a \in DOMAIN connections /\ a \in DOMAIN connections'
    /\ Len(connections'[a]) = Len(connections[a]) + 1

\* C38: a connection that has not joined board b since it connected is
\* never enqueued a frame whose board_id is b, whether the frame comes from
\* a handler of this instance or from the Bus.
C38_NoFrameOfUnjoinedBoard ==
    [][\A a \in Conns :
        Enqueued(a) =>
            LET m == connections'[a][Len(connections'[a])]
            IN  m.type # "Heartbeat" => m.board_id \in env.joined[a]]_vars

\* C33: when the writer task of a connection has stopped, the connection is
\* cancelled: its read loop ends and disconnect runs to its end.
C33_WriterStopCancels ==
    \A c \in Conns : (task[c].writer = "stopped") ~> (task[c].pc = "closed")

\* The steps in which the read loop of c ends and disconnect begins.
LoopEnds(c) == ~task[c].in_disconnect /\ task'[c].in_disconnect

\* C34: when the read loop of a registered connection ends (Close frame,
\* error, end of stream) the writer task is not running any more when
\* disconnect begins; from then on the task of the connection only runs
\* disconnect, takes up no frame, and disconnect runs once, to its end,
\* where connection and session are removed.
C34_DisconnectOnce ==
    /\ [][\A c \in Conns :
            /\ LoopEnds(c) =>
                  /\ c \in DOMAIN connections /\ task[c].pc = "idle"
                  /\ task'[c].writer \in {"aborted", "stopped"}
                  /\ task'[c].pc = "disc_loop"
            /\ task[c].in_disconnect =>
                  /\ env'.ops = env.ops \/ task'[c] = task[c]
                  /\ task'[c].in_disconnect \/ task'[c] = Blank
                  /\ task'[c].writer # "running"
                  /\ task'[c] = Blank =>
                        /\ task[c].pc = "disc_sessions"
                        /\ c \notin DOMAIN connections'
                        /\ c \notin DOMAIN sessions']_vars
    /\ \A c \in Conns : task[c].in_disconnect ~> (task[c].pc = "closed")

\* Connection 1, a member of board 1 with a running writer, has had its
\* read loop end: the writer is aborted and disconnect is leaving board 1.
C34_Witness ==
    /\ task[1].in_disconnect /\ task[1].writer = "aborted"
    /\ task[1].pc = "leave_room" /\ task[1].board_id = 1
    /\ IsMember(1, 1)

\* The instance has a subscription and its listener task is serving it.
Subscribed == listener.open /\ listener.pc \in {"recv", "send"}

\* C37: the subscription task never ends: after a failed subscribe and
\* after the end of its stream it sleeps and subscribes again, every time,
\* so that once the Bus is reachable for good the instance is subscribed
\* again; and whatever the listener is doing, every handler of a Join,
\* Leave or CursorUpdate that has begun runs to its end.
C37_SubscriptionRetries ==
    /\ [](listener.pc \in {"subscribe", "recv", "send", "backoff"})
    /\ (listener.pc = "recv" /\ ~ listener.open) ~> (listener.pc = "backoff")
    /\ (listener.pc = "backoff") ~> (listener.pc = "subscribe")
    /\ (listener.pc = "subscribe") ~> (Subscribed \/ listener.pc = "backoff")
    /\ (env.bus_up /\ env.drops = 0) ~> Subscribed
    /\ \A c \in Conns : (~ Quiet(c)) ~> Quiet(c)

\* The subscription was lost and the subscribe after it failed: the Bus is
\* unreachable and the listener sleeps before it tries again; meanwhile
\* connection 1 has joined board 1 and been sent its PresenceUpdate.
C37_Witness ==
    /\ ~ env.bus_up /\ env.drops = 0
    /\ listener.pc = "backoff" /\ listener.log = "failed to subscribe"
    /\ bus[1] = <<>>
    /\ task[1].pc = "idle" /\ Holds(1, 1) /\ IsMember(1, 1)
    /\ connections[1] = <<PresenceUpdate(1, 1)>>

====
